---- MODULE Spec2Model ----
(***************************************************************************)
(* Model of physiodsp: the personalised ActivityScore, the two stages of   *)
(* the motion extractors (ENMO, TimeAboveThr, ZeroCrossing): windowing and *)
(* aggregate, the EcgPeakDetector and the HrvScore.                        *)
(*                                                                         *)
(* Floating point numbers are modelled in fixed point:                     *)
(*   - table cells: steps (count), sleep_hours in 0.1 h, training_minutes  *)
(*     and resting_minutes in minutes;                                     *)
(*   - statistics of a column (median, std, quantile): cell unit / 100;    *)
(*   - scores: 0.01 point while computed, 0.1 point once rounded;          *)
(*   - weights: units of 0.000005 (WSCALE units make 1.0).                 *)
(* NaN is the distinguished value NaN; every comparison with it is false   *)
(* and every arithmetic operation on it gives NaN, as in IEEE 754.         *)
(***************************************************************************)
EXTENDS Integers, Sequences, FiniteSets, TLC

VARIABLES
    alg,              \* class of the instance under use ("None" before construction)
    settings,         \* self.settings
    user_stats,       \* self.user_stats
    baseline_stats,   \* self.baseline_stats
    biomarker_agg,    \* self.biomarker_agg (a table: sequence of rows)
    daily_scores,     \* self.daily_scores
    outcome,          \* how the last call ended: "ok" or the error raised
    call_arg,         \* argument of the last call
    raw_scores,       \* the unrounded sub-scores of the last successful run
    interpretation,   \* value returned by the last interpretation call
    timestamps,       \* self.timestamps (first-stage window timestamps)
    values,           \* self.values (first-stage window values)
    biomarker,        \* self.biomarker
    locs,             \* the peak locations found by the last peak detection
    hrv_score,        \* the score computed by the last HrvScore.run
    trend_bonus,      \* the trend adjustment computed by the last HrvScore.run
    class_biomarker_agg,  \* biomarker_agg set on the class of the instance
    peer,             \* a second instance of the same class (None before its construction)
    attrs             \* the attributes run and aggregate have set on the extractor instance

vars == <<alg, settings, user_stats, baseline_stats, biomarker_agg, daily_scores,
          outcome, call_arg, raw_scores, interpretation, timestamps, values, biomarker,
          locs, hrv_score, trend_bonus, class_biomarker_agg, peer, attrs>>

score_vars == <<user_stats, baseline_stats, biomarker_agg, daily_scores, raw_scores>>
window_vars == <<timestamps, values, biomarker>>
ecg_vars == <<locs>>
hrv_vars == <<hrv_score, trend_bonus>>
class_vars == <<class_biomarker_agg, peer>>

(***************************************************************************)
(* Bounds of the model.                                                    *)
(***************************************************************************)
MaxRows == 3          \* longest daily table passed to ActivityScore.run
MaxSamples == 8       \* longest IMU record passed to an extractor
MaxEcgSamples == 24   \* longest ECG record and integrated signal
MaxHrvEntries == 21   \* longest RMSSD series passed to HrvScore.run
MaxLabelled == 3      \* most first-stage windows labelled at once

(***************************************************************************)
(* Numbers.                                                                *)
(***************************************************************************)
NaN == -1000000000
None == <<>>
Some(x) == <<x>>

U == 100              \* statistics carry two decimals of the cell unit
SS == 100             \* scores carry two decimals while computed
WSCALE == 200000      \* weight 1.0
RTolInv == 100000     \* 1 / rtol of numpy.isclose (rtol = 1e-05)

IsNaN(x) == x = NaN
Abs(x) == IF x < 0 THEN -x ELSE x

\* IEEE arithmetic and comparisons on possibly-NaN operands
FAdd(a, b) == IF IsNaN(a) \/ IsNaN(b) THEN NaN ELSE a + b
FSub(a, b) == IF IsNaN(a) \/ IsNaN(b) THEN NaN ELSE a - b
FScale(a, n, d) == IF IsNaN(a) THEN NaN ELSE (a * n) \div d
FLt(a, b) == ~IsNaN(a) /\ ~IsNaN(b) /\ a < b
FLe(a, b) == ~IsNaN(a) /\ ~IsNaN(b) /\ a <= b
FGt(a, b) == FLt(b, a)

\* numpy true division of two floats, result scaled by scale:
\* 0/0 is NaN (a RuntimeWarning, not an exception)
FDiv(a, b, scale) ==
    IF IsNaN(a) \/ IsNaN(b) THEN NaN
    ELSE IF b = 0 THEN NaN
    ELSE (a * scale) \div b

\* Python's builtin max(a, b) and min(a, b): the first argument is kept
\* unless the second compares greater (smaller); NaN never does
PyMax(a, b) == IF FGt(b, a) THEN b ELSE a
PyMin(a, b) == IF FLt(b, a) THEN b ELSE a

\* Python's "x or d": d replaces a falsy x (0.0); NaN is truthy
PyOr(x, d) == IF x = 0 THEN d ELSE x

\* numpy.clip(x, lo, hi); NaN passes through
Clip(x, lo, hi) == IF IsNaN(x) THEN NaN ELSE IF x < lo THEN lo ELSE IF x > hi THEN hi ELSE x

\* round(x, ndigits): x in units of 1/step of the target unit, ties to even
RoundHalfEven(x, step) ==
    IF IsNaN(x) THEN NaN
    ELSE LET q == x \div step
             r == x % step
         IN IF 2 * r < step THEN q
            ELSE IF 2 * r > step THEN q + 1
            ELSE IF q % 2 = 0 THEN q ELSE q + 1

RECURSIVE ISqrtFrom(_, _)
ISqrtFrom(n, r) == IF (r + 1) * (r + 1) > n THEN r ELSE ISqrtFrom(n, r + 1)

RECURSIVE ISqrtBin(_, _, _)
ISqrtBin(n, lo, hi) ==
    IF hi - lo <= 1 THEN ISqrtFrom(n, lo)
    ELSE LET mid == (lo + hi) \div 2
         IN IF mid * mid <= n THEN ISqrtBin(n, mid, hi) ELSE ISqrtBin(n, lo, mid)

\* floor of the square root
ISqrt(n) == IF n <= 0 THEN 0 ELSE ISqrtBin(n, 0, IF n < 46340 THEN n + 1 ELSE 46340)

ES == 10000           \* scale of the exponential

\* exp(-y) for 0 <= y <= 1/2 (scale ES), by its Taylor polynomial
ExpNegSmall(y) ==
    LET h6 == ES - y \div 6
        h5 == ES - (y * h6) \div (5 * ES)
        h4 == ES - (y * h5) \div (4 * ES)
        h3 == ES - (y * h4) \div (3 * ES)
        h2 == ES - (y * h3) \div (2 * ES)
    IN ES - (y * h2) \div ES

\* numpy.exp(-x), x >= 0 in units of 1/ES, result in units of 1/ES
RECURSIVE ExpNeg(_)
ExpNeg(x) ==
    IF x >= 12 * ES THEN 0
    ELSE IF x <= ES \div 2 THEN ExpNegSmall(x)
    ELSE LET h == ExpNeg(x \div 2)
             sq == (h * h) \div ES
         IN IF x % 2 = 0 THEN sq ELSE (sq * (ES - 1)) \div ES

(***************************************************************************)
(* Column statistics of pandas, on a non-empty sequence of cells.          *)
(***************************************************************************)
RECURSIVE Insert(_, _)
Insert(x, s) ==
    IF s = <<>> THEN <<x>>
    ELSE IF x <= Head(s) THEN <<x>> \o s
    ELSE <<Head(s)>> \o Insert(x, Tail(s))

RECURSIVE Sorted(_)
Sorted(s) == IF s = <<>> THEN <<>> ELSE Insert(Head(s), Sorted(Tail(s)))

RECURSIVE SumSeq(_)
SumSeq(s) == IF s = <<>> THEN 0 ELSE Head(s) + SumSeq(Tail(s))

\* Series.median(): middle value, or the mean of the two middle values
Median(col) ==
    LET a == Sorted(col)
        n == Len(col)
    IN IF n % 2 = 1 THEN U * a[(n + 1) \div 2]
       ELSE (U * (a[n \div 2] + a[n \div 2 + 1])) \div 2

\* Series.std(): sample standard deviation (ddof = 1), NaN for one value.
\* The deviations are taken from the first cell (the variance does not
\* depend on the origin); the root is taken to one decimal of the cell unit.
Std(col) ==
    LET n == Len(col)
        d == [i \in 1..n |-> col[i] - col[1]]
        sq == [i \in 1..n |-> d[i] * d[i]]
        num == n * SumSeq(sq) - SumSeq(d) * SumSeq(d)
    IN IF n < 2 THEN NaN
       ELSE 10 * ISqrt((num * 100) \div (n * (n - 1)))

\* Series.quantile(0.75): linear interpolation between the two nearest ranks
Quantile75(col) ==
    LET a == Sorted(col)
        n == Len(col)
        pos4 == 3 * (n - 1)              \* four times the fractional rank
        lo == pos4 \div 4 + 1
        hi == IF lo < n THEN lo + 1 ELSE lo
    IN U * a[lo] + (pos4 % 4) * 25 * (a[hi] - a[lo])

Column(rows, name) == [i \in 1..Len(rows) |-> rows[i][name]]

\* ActivityScore._compute_baseline_stats
ComputeBaselineStats(baseline_data) ==
    [steps_median    |-> Median(Column(baseline_data, "steps")),
     steps_std       |-> Std(Column(baseline_data, "steps")),
     steps_p75       |-> Quantile75(Column(baseline_data, "steps")),
     sleep_median    |-> Median(Column(baseline_data, "sleep_hours")),
     sleep_std       |-> Std(Column(baseline_data, "sleep_hours")),
     training_median |-> Median(Column(baseline_data, "training_minutes")),
     training_std    |-> Std(Column(baseline_data, "training_minutes")),
     resting_median  |-> Median(Column(baseline_data, "resting_minutes")),
     resting_std     |-> Std(Column(baseline_data, "resting_minutes"))]

(***************************************************************************)
(* The four sub-scores, in 0.01 point.  Only the personalised branch       *)
(* (baseline_stats given) is reachable from run.                           *)
(***************************************************************************)
RS == 1000            \* scale of the normalised step ratios

\* _score_steps with the 75th percentile alone as the ceiling
ScoreStepsCeilingP75(daily_steps, stats, scoring_method) ==
    LET baseline == stats.steps_median
        ceiling == stats.steps_p75
        normalized == (daily_steps * U * RS) \div baseline
        peak_normalized == (ceiling * RS) \div baseline
        std_dev == (peak_normalized - RS) \div 2
        z == (Abs(normalized - RS) * RS) \div std_dev
        expo == IF z >= 5 * RS THEN 12 * ES ELSE (z * z) \div (2 * ((RS * RS) \div ES))
    IN IF scoring_method = "gaussian"
       THEN IF baseline = 0 \/ std_dev = 0 THEN 0
            ELSE Clip((100 * SS * ExpNeg(expo)) \div ES, 0, 100 * SS)
       ELSE IF ceiling = 0 THEN 0
            ELSE LET lin == (daily_steps * U * 100 * SS) \div ceiling
                 IN IF 100 * SS < lin THEN 100 * SS ELSE lin

\* ActivityScore._score_steps; (n-1)^2 / (2 sd^2) is computed as ((n-1)/sd)^2 / 2
ScoreSteps(daily_steps, stats, scoring_method) ==
    LET baseline == stats.steps_median
        ceiling == PyMax((baseline * 3) \div 2, stats.steps_p75)
        normalized == (daily_steps * U * RS) \div baseline
        peak_normalized == (ceiling * RS) \div baseline
        std_dev == (peak_normalized - RS) \div 2
        z == (Abs(normalized - RS) * RS) \div std_dev
        expo == IF z >= 5 * RS THEN 12 * ES ELSE (z * z) \div (2 * ((RS * RS) \div ES))
    IN IF scoring_method = "gaussian"
       THEN IF baseline = 0 THEN 0
            ELSE Clip((100 * SS * ExpNeg(expo)) \div ES, 0, 100 * SS)
       ELSE IF ceiling = 0 THEN 0
            ELSE LET lin == (daily_steps * U * 100 * SS) \div ceiling
                 IN IF 100 * SS < lin THEN 100 * SS ELSE lin

\* min_sleep of ActivityScore._score_sleep, in 0.001 h
MinSleep(stats) ==
    PyMax(4000, FSub(stats.sleep_median, FScale(PyOr(stats.sleep_std, 500), 3, 2)))

\* ActivityScore._score_sleep; hours in 0.001 h
ScoreSleep(sleep_hours_cell, stats) ==
    LET sleep_hours == U * sleep_hours_cell
        median_sleep == stats.sleep_median
        std_sleep == PyOr(stats.sleep_std, 500)
        optimal == median_sleep
        min_sleep == MinSleep(stats)
        max_sleep == PyMin(11000, FAdd(median_sleep, FScale(std_sleep, 3, 2)))
        score ==
            IF sleep_hours < min_sleep
            THEN LET deficit50 == ((min_sleep - sleep_hours) * 50 * SS) \div min_sleep
                 IN PyMax(0, 50 * SS - deficit50)
            ELSE IF sleep_hours <= optimal
            THEN FDiv(sleep_hours - min_sleep, optimal - min_sleep, 100 * SS)
            ELSE IF sleep_hours <= max_sleep
            THEN 100 * SS - ((sleep_hours - optimal) * 30 * SS) \div (max_sleep - optimal)
            ELSE LET excess == sleep_hours - max_sleep
                 IN PyMax(0, 70 * SS - (excess * 10 * SS) \div 1000)
    IN Clip(score, 0, 100 * SS)

\* _score_training with a ramp from 50 at 5 minutes to 100 at optimal
ScoreTrainingRampFromFive(training_minutes_cell, stats) ==
    LET training_minutes == U * training_minutes_cell
        median_training == stats.training_median
        std_training == PyOr(stats.training_std, 15 * U)
        optimal == PyMax(30 * U, median_training)
        max_train == FAdd(optimal, FScale(std_training, 2, 1))
        score ==
            IF training_minutes < 5 * U THEN 50 * SS
            ELSE IF training_minutes <= optimal
            THEN 50 * SS + ((training_minutes - 5 * U) * 50 * SS) \div (optimal - 5 * U)
            ELSE IF FLe(training_minutes, max_train)
            THEN 100 * SS + ((training_minutes - optimal) * 10 * SS) \div (max_train - optimal) - 10 * SS
            ELSE LET excess == FSub(training_minutes, max_train)
                 IN PyMax(0, FSub(100 * SS, FScale(excess, SS, 2 * U)))
    IN Clip(score, 0, 100 * SS)

\* ActivityScore._score_training; minutes in 0.01 min
ScoreTraining(training_minutes_cell, stats) ==
    LET training_minutes == U * training_minutes_cell
        median_training == stats.training_median
        std_training == PyOr(stats.training_std, 15 * U)
        optimal == PyMax(30 * U, median_training)
        max_train == FAdd(optimal, FScale(std_training, 2, 1))
        score ==
            IF training_minutes < 5 * U THEN 50 * SS
            ELSE IF training_minutes <= optimal
            THEN 50 * SS + (training_minutes * 50 * SS) \div optimal
            ELSE IF FLe(training_minutes, max_train)
            THEN 100 * SS + ((training_minutes - optimal) * 10 * SS) \div (max_train - optimal) - 10 * SS
            ELSE LET excess == FSub(training_minutes, max_train)
                 IN PyMax(0, FSub(100 * SS, FScale(excess, SS, 2 * U)))
    IN Clip(score, 0, 100 * SS)

HOUR == 60 * U        \* one hour, in 0.01 min

\* min_hours of ActivityScore._score_resting
MinHours(stats) ==
    PyMax(6 * HOUR, FSub(stats.resting_median, FScale(PyOr(stats.resting_std, HOUR \div 2), 3, 2)))

\* ActivityScore._score_resting; hours are kept in units of 0.01 min
ScoreResting(resting_minutes_cell, stats) ==
    LET resting_hours == U * resting_minutes_cell
        median_resting == stats.resting_median
        std_resting == PyOr(stats.resting_std, HOUR \div 2)
        optimal_hours == median_resting
        min_hours == MinHours(stats)
        max_hours == PyMin(12 * HOUR, FAdd(median_resting, FScale(std_resting, 3, 2)))
        score ==
            IF resting_hours < min_hours
            THEN LET deficit == min_hours - resting_hours
                 IN PyMax(0, 50 * SS - (deficit * 15 * SS) \div HOUR)
            ELSE IF resting_hours <= optimal_hours
            THEN FDiv(resting_hours - min_hours, optimal_hours - min_hours, 100 * SS)
            ELSE IF resting_hours <= max_hours
            THEN LET excess_hours == resting_hours - optimal_hours
                     max_excess == max_hours - optimal_hours
                 IN 100 * SS - (excess_hours * 25 * SS) \div max_excess
            ELSE LET excess_hours == resting_hours - max_hours
                 IN PyMax(0, 75 * SS - (excess_hours * 10 * SS) \div HOUR)
    IN Clip(score, 0, 100 * SS)

(***************************************************************************)
(* ActivityScore: inputs.                                                  *)
(***************************************************************************)
RequiredColumns == {"steps", "sleep_hours", "training_minutes", "resting_minutes"}

\* the daily rows the tables are made of: a day without any activity, a day
\* on the lower edge of the healthy ranges (4.0 h sleep, 6 h rest), a day of
\* a low-activity user and a day of a high-activity user
Days ==
    { [steps |-> 0,   sleep_hours |-> 0,  training_minutes |-> 0,   resting_minutes |-> 0],
      [steps |-> 80,  sleep_hours |-> 40, training_minutes |-> 5,   resting_minutes |-> 360],
      [steps |-> 50,  sleep_hours |-> 65, training_minutes |-> 30,  resting_minutes |-> 420],
      [steps |-> 150, sleep_hours |-> 85, training_minutes |-> 120, resting_minutes |-> 600] }

Tables == UNION { [1..n -> Days] : n \in 0..MaxRows }

\* tables lacking a required column
MalformedTables ==
    { [columns |-> RequiredColumns \ {"sleep_hours"}, rows |-> r] :
        r \in { t \in Tables : Len(t) \in {1, 2} /\ \A i \in 1..Len(t) : t[i].steps = 50 } }

DailyTables == { [columns |-> RequiredColumns, rows |-> r] : r \in Tables } \cup MalformedTables

StepWeights == {47997, 47999, 50000, 52000, 52001, 52003}
ScoringMethods == {"gaussian", "sigmoid", "linear"}

DefaultSettings ==
    [baseline_window_days |-> 30, step_weight |-> 50000, sleep_weight |-> 70000,
     training_weight |-> 50000, resting_weight |-> 30000, scoring_method |-> "gaussian"]

\* ActivityScoreSettings; the fixed targets are only read when no baseline
\* is given, which run never does
SettingsSet ==
    { [DefaultSettings EXCEPT !.step_weight = w] : w \in StepWeights }
    \cup { [DefaultSettings EXCEPT !.scoring_method = m, !.baseline_window_days = d] :
             m \in ScoringMethods, d \in {1, 30} }

ErrWeights == "ValueError: Weights must sum to 1.0"
ErrColumns == "ValueError: DataFrame must contain: steps, sleep_hours, training_minutes, resting_minutes"
ErrRows == "ValueError: Need at least 2 days of data"

(***************************************************************************)
(* ActivityScore: construction.                                            *)
(***************************************************************************)
\* numpy.isclose(a, b, atol=atol) with its default rtol
IsClose(a, b, atol) == Abs(a - b) <= atol + Abs(b) \div RTolInv

TotalWeight(s) == s.step_weight + s.sleep_weight + s.training_weight + s.resting_weight

\* ActivityScore._validate_weights: TRUE when no error is raised
ValidateWeights(s) == IsClose(TotalWeight(s), WSCALE, WSCALE \div 100)

\* ActivityScore.__init__
ActivityScoreInit(s) ==
    /\ call_arg' = s
    /\ IF ValidateWeights(s)
       THEN /\ alg' = "ActivityScore"
            /\ settings' = s
            /\ outcome' = "constructed"
       ELSE /\ alg' = "None"
            /\ settings' = None
            /\ outcome' = ErrWeights
    /\ user_stats' = None
    /\ daily_scores' = None
    /\ baseline_stats' = None
    /\ biomarker_agg' = None
    /\ raw_scores' = None
    /\ UNCHANGED <<interpretation, window_vars, ecg_vars, hrv_vars, class_vars, attrs>>

(***************************************************************************)
(* ActivityScore: run.                                                     *)
(***************************************************************************)
Min(a, b) == IF a <= b THEN a ELSE b

\* the last window_size rows of the table, the scored row among them
BaselineDataWithScoredRow(rows, window_size) ==
    SubSeq(rows, Len(rows) - window_size + 1, Len(rows))

\* daily_activity_data.iloc[:-1].tail(window_size)
BaselineData(rows, window_size) == SubSeq(rows, Len(rows) - window_size, Len(rows) - 1)

\* the weighted combination, in units of 1 / (SS * WSCALE) point
WeightedCombination(step_score, sleep_score, training_score, resting_score, s) ==
    IF IsNaN(step_score) \/ IsNaN(sleep_score) \/ IsNaN(training_score) \/ IsNaN(resting_score)
    THEN NaN
    ELSE step_score * s.step_weight + sleep_score * s.sleep_weight
         + training_score * s.training_weight + resting_score * s.resting_weight

\* round(x, 1) of a sub-score and of the combination, in 0.1 point
Round1(score) == RoundHalfEven(score, SS \div 10)
Round1Combined(activity_score) == RoundHalfEven(activity_score, (SS * WSCALE) \div 10)

\* the baselines run can form, and the statistics and the four sub-scores of
\* every (baseline, day, scoring method); "@@ <<>>" has TLC tabulate each
\* function once instead of evaluating it at every use
Baselines == UNION { [1..n -> Days] : n \in 1..(MaxRows - 1) }

BaselineStatsOf == [b \in Baselines |-> ComputeBaselineStats(b)] @@ <<>>

SubScoresOf ==
    [k \in Baselines \X Days \X ScoringMethods |->
        [step_score |-> ScoreSteps(k[2].steps, BaselineStatsOf[k[1]], k[3]),
         sleep_score |-> ScoreSleep(k[2].sleep_hours, BaselineStatsOf[k[1]]),
         training_score |-> ScoreTraining(k[2].training_minutes, BaselineStatsOf[k[1]]),
         resting_score |-> ScoreResting(k[2].resting_minutes, BaselineStatsOf[k[1]])]] @@ <<>>

\* the four sub-scores of the current day and their weighted combination
RawScoresUnpersonalised(current_day_data, baseline_data, s) ==
    LET sub == SubScoresOf[<<SubSeq(baseline_data, 1, 0) \o <<current_day_data>>,
                             current_day_data, s.scoring_method>>]
    IN [step_score |-> sub.step_score, sleep_score |-> sub.sleep_score,
        training_score |-> sub.training_score, resting_score |-> sub.resting_score,
        activity_score |-> WeightedCombination(sub.step_score, sub.sleep_score,
                                               sub.training_score, sub.resting_score, s)]

RawScores(current_day_data, baseline_data, s) ==
    LET sub == SubScoresOf[<<baseline_data, current_day_data, s.scoring_method>>]
    IN [step_score |-> sub.step_score, sleep_score |-> sub.sleep_score,
        training_score |-> sub.training_score, resting_score |-> sub.resting_score,
        activity_score |-> WeightedCombination(sub.step_score, sub.sleep_score,
                                               sub.training_score, sub.resting_score, s)]

ScoreRecord(rows, window_size, raw) ==
    LET current_day_data == rows[Len(rows)]
    IN [date |-> Len(rows) - 1,
        activity_score |-> Round1Combined(raw.activity_score),
        step_score |-> Round1(raw.step_score),
        sleep_score |-> Round1(raw.sleep_score),
        training_score |-> Round1(raw.training_score),
        resting_score |-> Round1(raw.resting_score),
        steps |-> current_day_data.steps,
        sleep_hours |-> current_day_data.sleep_hours,
        training_minutes |-> current_day_data.training_minutes,
        resting_minutes |-> current_day_data.resting_minutes,
        baseline_days_used |-> window_size]

\* what is kept of the argument of run: its columns and its number of rows
Shape(data) == [columns |-> data.columns, nrows |-> Len(data.rows)]

MinDaysOffByOne == 3
MinDays == 2          \* "Need at least 2 days of data"

\* run, had it cleared the stored results before validating its input
ActivityScoreRunClearsFirst(data) ==
    /\ alg = "ActivityScore"
    /\ call_arg' = Shape(data)
    /\ IF ~(RequiredColumns \subseteq data.columns)
       THEN /\ outcome' = ErrColumns
            /\ biomarker_agg' = None
            /\ daily_scores' = None
            /\ UNCHANGED <<user_stats, baseline_stats, raw_scores>>
       ELSE IF Len(data.rows) < MinDays
       THEN /\ outcome' = ErrRows
            /\ biomarker_agg' = None
            /\ daily_scores' = None
            /\ UNCHANGED <<user_stats, baseline_stats, raw_scores>>
       ELSE LET rows == data.rows
                window_size == Min(settings.baseline_window_days, Len(rows) - 1)
                baseline_data == BaselineData(rows, window_size)
                stats == BaselineStatsOf[baseline_data]
                raw == RawScores(rows[Len(rows)], baseline_data, settings)
                score_record == ScoreRecord(rows, window_size, raw)
            IN /\ baseline_stats' = Some(stats)
               /\ biomarker_agg' = <<score_record>>
               /\ daily_scores' = <<score_record>>
               /\ raw_scores' = Some(raw)
               /\ user_stats' = user_stats
               /\ outcome' = "ok"
    /\ UNCHANGED <<alg, settings, interpretation, window_vars, ecg_vars, hrv_vars, class_vars, attrs>>

\* run, had it appended the record of the day to the stored table
ActivityScoreRunAccumulates(data) ==
    /\ alg = "ActivityScore"
    /\ call_arg' = Shape(data)
    /\ IF ~(RequiredColumns \subseteq data.columns)
       THEN /\ outcome' = ErrColumns
            /\ UNCHANGED score_vars
       ELSE IF Len(data.rows) < MinDays
       THEN /\ outcome' = ErrRows
            /\ UNCHANGED score_vars
       ELSE LET rows == data.rows
                window_size == Min(settings.baseline_window_days, Len(rows) - 1)
                baseline_data == BaselineData(rows, window_size)
                stats == BaselineStatsOf[baseline_data]
                raw == RawScores(rows[Len(rows)], baseline_data, settings)
                score_record == ScoreRecord(rows, window_size, raw)
            IN /\ baseline_stats' = Some(stats)
               /\ biomarker_agg' = biomarker_agg \o <<score_record>>
               /\ daily_scores' = daily_scores \o <<score_record>>
               /\ raw_scores' = Some(raw)
               /\ user_stats' = user_stats
               /\ outcome' = "ok"
    /\ UNCHANGED <<alg, settings, interpretation, window_vars, ecg_vars, hrv_vars, class_vars, attrs>>

\* ActivityScore.run
ActivityScoreRun(data) ==
    /\ alg = "ActivityScore"
    /\ call_arg' = Shape(data)
    /\ IF ~(RequiredColumns \subseteq data.columns)
       THEN /\ outcome' = ErrColumns
            /\ UNCHANGED score_vars
       ELSE IF Len(data.rows) < MinDays
       THEN /\ outcome' = ErrRows
            /\ UNCHANGED score_vars
       ELSE LET rows == data.rows
                window_size == Min(settings.baseline_window_days, Len(rows) - 1)
                baseline_data == BaselineData(rows, window_size)
                stats == BaselineStatsOf[baseline_data]
                raw == RawScores(rows[Len(rows)], baseline_data, settings)
                score_record == ScoreRecord(rows, window_size, raw)
            IN /\ baseline_stats' = Some(stats)
               /\ biomarker_agg' = <<score_record>>
               /\ daily_scores' = <<score_record>>
               /\ raw_scores' = Some(raw)
               /\ user_stats' = user_stats
               /\ outcome' = "ok"
    /\ UNCHANGED <<alg, settings, interpretation, window_vars, ecg_vars, hrv_vars, class_vars, attrs>>

(***************************************************************************)
(* ActivityScore: interpretation of a score (in 0.01 point).               *)
(***************************************************************************)
Excellent == "Excellent - Outstanding activity and recovery balance"
Good == "Good - Healthy activity levels with adequate recovery"
Fair == "Fair - Room for improvement in activity or recovery"
Poor == "Poor - Significant imbalance in activity or recovery"
Critical == "Critical - Urgent attention needed to activity and recovery"

FGe(a, b) == FLe(b, a)

InterpretationStrictBounds(activity_score) ==
    IF FGt(activity_score, 85 * SS) THEN Excellent
    ELSE IF FGt(activity_score, 70 * SS) THEN Good
    ELSE IF FGt(activity_score, 50 * SS) THEN Fair
    ELSE IF FGt(activity_score, 30 * SS) THEN Poor
    ELSE Critical

\* ActivityScore.get_activity_score_interpretation, as a function of the score
Interpretation(activity_score) ==
    IF FGe(activity_score, 85 * SS) THEN Excellent
    ELSE IF FGe(activity_score, 70 * SS) THEN Good
    ELSE IF FGe(activity_score, 50 * SS) THEN Fair
    ELSE IF FGe(activity_score, 30 * SS) THEN Poor
    ELSE Critical

\* the scores interpreted: every half point of [-5, 105], the hundredths
\* around the four bucket bounds, and NaN
InterpretedScores ==
    { 50 * n - 500 : n \in 0..220 }
    \cup { b * SS + d : b \in {30, 50, 70, 85}, d \in {-1, 0, 1} }
    \cup { NaN }

\* ActivityScore.get_activity_score_interpretation
GetActivityScoreInterpretation(activity_score) ==
    /\ alg = "ActivityScore"
    /\ interpretation' = Some([activity_score |-> activity_score,
                               label |-> Interpretation(activity_score)])
    /\ UNCHANGED <<alg, settings, score_vars, outcome, call_arg, window_vars, ecg_vars, hrv_vars, class_vars, attrs>>

Init ==
    /\ alg = "None"
    /\ settings = None
    /\ user_stats = None
    /\ baseline_stats = None
    /\ biomarker_agg = None
    /\ daily_scores = None
    /\ outcome = "none"
    /\ call_arg = None
    /\ raw_scores = None
    /\ interpretation = None
    /\ timestamps = <<>>
    /\ values = <<>>
    /\ biomarker = <<>>
    /\ locs = None
    /\ hrv_score = None
    /\ trend_bonus = None
    /\ class_biomarker_agg = None
    /\ peer = None
    /\ attrs = {}

Next ==
    \/ \E s \in SettingsSet : ActivityScoreInit(s)
    \/ \E data \in DailyTables : ActivityScoreRun(data)

Spec == Init /\ [][Next]_vars

\* the interpretation calls on an instance built with the default settings
InitInterpretation ==
    /\ alg = "ActivityScore"
    /\ settings = DefaultSettings
    /\ user_stats = None
    /\ baseline_stats = None
    /\ biomarker_agg = None
    /\ daily_scores = None
    /\ outcome = "constructed"
    /\ call_arg = DefaultSettings
    /\ raw_scores = None
    /\ interpretation = None
    /\ timestamps = <<>>
    /\ values = <<>>
    /\ biomarker = <<>>
    /\ locs = None
    /\ hrv_score = None
    /\ trend_bonus = None
    /\ class_biomarker_agg = None
    /\ peer = None
    /\ attrs = {}

NextInterpretation == \E a \in InterpretedScores : GetActivityScoreInterpretation(a)

SpecInterpretation == InitInterpretation /\ [][NextInterpretation]_vars

(***************************************************************************)
(* Properties of ActivityScore.                                            *)
(***************************************************************************)
LastCallWasInit == outcome \in {"constructed", ErrWeights}
LastCallWasRun == outcome \in {"ok", ErrColumns, ErrRows}

\* the record of the last successful run, and the day it scored
Record == biomarker_agg[1]
Today == [steps |-> Record.steps, sleep_hours |-> Record.sleep_hours,
          training_minutes |-> Record.training_minutes,
          resting_minutes |-> Record.resting_minutes]

\* a reported score (0.1 point) is a number of [0, 100]
InRange(x) == FLe(0, x) /\ FLe(x, 1000)

\* equality of two floats: NaN equals nothing
FEq(a, b) == ~IsNaN(a) /\ ~IsNaN(b) /\ a = b

\* C1: construction fails when the four weights sum to a value outside
\* [0.99, 1.01] and succeeds when the sum lies inside
C1_WeightSumChecked ==
    LastCallWasInit =>
        (outcome = "constructed"
            <=> /\ 99 * WSCALE <= 100 * TotalWeight(call_arg)
                /\ 100 * TotalWeight(call_arg) <= 101 * WSCALE)

\* C2: on every accepted table run completes and the four reported
\* sub-scores are finite numbers of [0, 100]
C2_SubScoresInRange ==
    (LastCallWasRun /\ RequiredColumns \subseteq call_arg.columns /\ call_arg.nrows >= MinDays) =>
        /\ outcome = "ok"
        /\ InRange(Record.step_score)
        /\ InRange(Record.sleep_score)
        /\ InRange(Record.training_score)
        /\ InRange(Record.resting_score)

\* C3: the composite activity_score of every accepted settings object and
\* accepted table lies in [0, 100]
C3_CompositeInRange ==
    outcome = "ok" => InRange(Record.activity_score)

\* C4: a table with all columns and fewer than 2 rows fails with the
\* data-sufficiency error; one with exactly 2 rows is accepted and yields
\* one record with baseline_days_used = 1
C4_MinimumData ==
    (LastCallWasRun /\ RequiredColumns \subseteq call_arg.columns) =>
        /\ call_arg.nrows < 2 => outcome = ErrRows
        /\ call_arg.nrows = 2 =>
              /\ outcome = "ok"
              /\ Len(biomarker_agg) = 1
              /\ Record.baseline_days_used = 1

\* a 1-row table was rejected on an instance that holds the record of a
\* 2-row table
C4_Witness ==
    /\ outcome = ErrRows
    /\ call_arg.nrows = 1
    /\ Len(biomarker_agg) = 1
    /\ Record.date = 1
    /\ Record.baseline_days_used = 1

\* C5: a call of run that rejects its input leaves baseline_stats,
\* biomarker_agg and daily_scores as they were before the call
C5_RejectionKeepsResults ==
    [][outcome' \in {ErrColumns, ErrRows} =>
            UNCHANGED <<baseline_stats, biomarker_agg, daily_scores>>]_vars

\* a call was rejected on an instance that holds the results of an earlier run
C5_Witness ==
    /\ outcome \in {ErrColumns, ErrRows}
    /\ Len(biomarker_agg) = 1
    /\ daily_scores = biomarker_agg
    /\ baseline_stats # None

\* C6: the reported activity_score is the weighted sum of the four
\* sub-scores rounded to 1 decimal, and is within 0.5 of the weighted sum
\* of the four reported sub-scores
C6_WeightedCombination ==
    outcome = "ok" =>
        LET raw == raw_scores[1]
            w == settings
            reported == Record.step_score * w.step_weight
                        + Record.sleep_score * w.sleep_weight
                        + Record.training_score * w.training_weight
                        + Record.resting_score * w.resting_weight
        IN /\ FEq(raw.activity_score,
                  raw.step_score * w.step_weight + raw.sleep_score * w.sleep_weight
                  + raw.training_score * w.training_weight
                  + raw.resting_score * w.resting_weight)
           /\ FEq(Record.activity_score,
                  RoundHalfEven(raw.activity_score, (SS * WSCALE) \div 10))
           /\ InRange(Record.step_score) /\ InRange(Record.sleep_score)
           /\ InRange(Record.training_score) /\ InRange(Record.resting_score)
           /\ Abs(Record.activity_score * WSCALE - reported) <= 5 * WSCALE

\* the record run produces for a table under settings s
RunRecordOf(rows, s) ==
    LET window_size == Min(s.baseline_window_days, Len(rows) - 1)
    IN ScoreRecord(rows, window_size,
                   RawScores(rows[Len(rows)], BaselineData(rows, window_size), s))

\* the baseline statistics run computes for a table under settings s
RunStatsOf(rows, s) ==
    BaselineStatsOf[BaselineData(rows, Min(s.baseline_window_days, Len(rows) - 1))]

\* the scored day equals the median of its own baseline in every factor
MatchesOwnBaseline ==
    LET stats == baseline_stats[1]
    IN /\ U * Today.steps = stats.steps_median
       /\ U * Today.sleep_hours = stats.sleep_median
       /\ U * Today.training_minutes = stats.training_median
       /\ U * Today.resting_minutes = stats.resting_median

\* the medians of the own baseline lie above the floors of the scoring
\* curves: some steps, more than 4 h of sleep, more than 6 h of rest
AboveFloors ==
    LET stats == baseline_stats[1]
    IN /\ stats.steps_median > 0
       /\ stats.sleep_median > 4000
       /\ stats.resting_median > 6 * HOUR

\* a table with the same scored day whose baseline is higher in every
\* factor, the day lying below its personalised sleep and rest minimum
FarBelowHigherBaseline(rows) ==
    LET stats == RunStatsOf(rows, settings)
    IN /\ Len(rows) >= MinDays
       /\ rows[Len(rows)] = Today
       /\ U * Today.steps < stats.steps_median
       /\ U * Today.training_minutes < stats.training_median
       /\ U * Today.sleep_hours < stats.sleep_median
       /\ U * Today.resting_minutes < stats.resting_median
       /\ U * Today.sleep_hours < MinSleep(stats)
       /\ U * Today.resting_minutes < MinHours(stats)

\* C8 as stated: a day that matches its own baseline scores strictly higher
\* than the same day far below a higher baseline
C8_PersonalizationOrdering ==
    (Len(biomarker_agg) = 1 /\ MatchesOwnBaseline) =>
        \A rows \in Tables :
            FarBelowHigherBaseline(rows) =>
                FGt(Record.activity_score, RunRecordOf(rows, settings).activity_score)

\* the instance weighs the factors with the default weights
HasDefaultWeights ==
    /\ settings.step_weight = DefaultSettings.step_weight
    /\ settings.sleep_weight = DefaultSettings.sleep_weight
    /\ settings.training_weight = DefaultSettings.training_weight
    /\ settings.resting_weight = DefaultSettings.resting_weight

\* C8, amended: under the default weights, a day that matches its own
\* baseline, the baseline lying above the floors of the curves, scores
\* strictly higher than the same day far below a higher baseline
C8_PersonalizationOrderingAboveFloors ==
    (Len(biomarker_agg) = 1 /\ HasDefaultWeights /\ MatchesOwnBaseline /\ AboveFloors) =>
        \A rows \in Tables :
            FarBelowHigherBaseline(rows) =>
                FGt(Record.activity_score, RunRecordOf(rows, settings).activity_score)

\* a day that matches its own baseline above the floors, and a table that
\* holds the same day far below a higher baseline
C8_Witness ==
    /\ Len(biomarker_agg) = 1
    /\ HasDefaultWeights
    /\ MatchesOwnBaseline
    /\ AboveFloors
    /\ \E rows \in Tables : FarBelowHigherBaseline(rows)

(***************************************************************************)
(* Properties of the interpretation.                                       *)
(***************************************************************************)
\* C7: every score maps to one of the five labels, with inclusive lower
\* bounds 85, 70, 50 and 30
C7_InterpretationBuckets ==
    interpretation # None =>
        LET a == interpretation[1].activity_score
            label == interpretation[1].label
        IN /\ label \in {Excellent, Good, Fair, Poor, Critical}
           /\ FGe(a, 85 * SS) => label = Excellent
           /\ (FGe(a, 70 * SS) /\ FLt(a, 85 * SS)) => label = Good
           /\ (FGe(a, 50 * SS) /\ FLt(a, 70 * SS)) => label = Fair
           /\ (FGe(a, 30 * SS) /\ FLt(a, 50 * SS)) => label = Poor
           /\ FLt(a, 30 * SS) => label = Critical

\* the score 85.00 was interpreted as Excellent
C7_Witness ==
    /\ interpretation # None
    /\ interpretation[1].activity_score = 85 * SS
    /\ interpretation[1].label = Excellent

(***************************************************************************)
(* The motion extractors: input records.                                   *)
(* Timestamps are in ticks of 1/TU second, accelerations in 0.01 g.        *)
(***************************************************************************)
TU == 2               \* ticks per second
G == 100              \* 1 g

SamplingRates == {1, 2}
StartTimes == {7}
Patterns == {"rest", "tilt", "alternate", "cycle"}

\* the i-th sample (from 1) of a signal pattern
Sample(p, i) ==
    IF p = "rest" THEN [x |-> 0, y |-> 0, z |-> 100]
    ELSE IF p = "tilt" THEN [x |-> 10, y |-> -130, z |-> 0]
    ELSE IF p = "alternate"
    THEN (IF i % 2 = 1 THEN [x |-> 0, y |-> 0, z |-> 100] ELSE [x |-> 0, y |-> 120, z |-> 160])
    ELSE (IF i % 3 = 1 THEN [x |-> 30, y |-> 40, z |-> 0]
          ELSE IF i % 3 = 2 THEN [x |-> 0, y |-> -148, z |-> 0]
          ELSE [x |-> 0, y |-> 120, z |-> 160])

\* IMUData: n samples of pattern p taken at fs Hz from second t0 on
IMURecord(n, fs, t0, p) ==
    [timestamps |-> [i \in 1..n |-> TU * t0 + (i - 1) * (TU \div fs)],
     x |-> [i \in 1..n |-> Sample(p, i).x],
     y |-> [i \in 1..n |-> Sample(p, i).y],
     z |-> [i \in 1..n |-> Sample(p, i).z],
     fs |-> fs]

IMURecords ==
    { IMURecord(n, fs, t0, p) : n \in 0..MaxSamples, fs \in SamplingRates,
                                t0 \in StartTimes, p \in Patterns }

\* IMUData.magnitude
Magnitude(data) ==
    [i \in 1..Len(data.x) |->
        ISqrt(data.x[i] * data.x[i] + data.y[i] * data.y[i] + data.z[i] * data.z[i])] @@ <<>>

(***************************************************************************)
(* The first-stage windowing: rolling(window, step, min_periods,           *)
(* closed="left"), one reduction per window, then [1:].                    *)
(***************************************************************************)
Clamp(i, lo, hi) == IF i < lo THEN lo ELSE IF i > hi THEN hi ELSE i

\* the bounds, had the windows been closed on the right
WindowBoundsClosedRight(num_values, window_size, step) ==
    [j \in 1..((num_values + step - 1) \div step) |->
        LET end == 1 + (j - 1) * step
        IN [start |-> Clamp(end - window_size, 0, num_values),
            end |-> Clamp(end, 0, num_values)]]

\* the bounds [start, end) of the windows over num_values rows (rows counted
\* from 0): one window per step, ending before the row it is anchored at
WindowBounds(num_values, window_size, step) ==
    [j \in 1..((num_values + step - 1) \div step) |->
        LET end == 1 + (j - 1) * step
        IN [start |-> Clamp(end - window_size - 1, 0, num_values),
            end |-> Clamp(end - 1, 0, num_values)]]

RECURSIVE MaxSeq(_)
MaxSeq(s) ==
    IF Len(s) = 1 THEN s[1]
    ELSE LET m == MaxSeq(Tail(s)) IN IF s[1] >= m THEN s[1] ELSE m

MeanSeq(s) == SumSeq(s) \div Len(s)

\* the reductions of a column
Reduce(how, s) ==
    IF how = "max" THEN MaxSeq(s) ELSE IF how = "sum" THEN SumSeq(s) ELSE MeanSeq(s)

\* Series.rolling(...).agg(how): NaN where the window holds fewer than
\* min_periods rows
Rolling(col, window, step, min_periods, how) ==
    LET bounds == WindowBounds(Len(col), window, step)
    IN [j \in 1..Len(bounds) |->
           LET rows == SubSeq(col, bounds[j].start + 1, bounds[j].end)
           IN IF Len(rows) >= min_periods /\ Len(rows) > 0 THEN Reduce(how, rows) ELSE NaN]

\* [1:], had it kept every row
KeepFirst(s) == s

\* [1:]
DropFirst(s) == IF s = <<>> THEN <<>> ELSE Tail(s)

\* DataFrame(timestamps, x, y, z).rolling(...).agg({"timestamps": "max",
\* "x": "sum", "y": "sum", "z": "sum"})[1:], as a sequence of rows
RollingAgg(df, window) ==
    LET t == DropFirst(Rolling(df.timestamps, window, window, window, "max"))
        x == DropFirst(Rolling(df.x, window, window, window, "sum"))
        y == DropFirst(Rolling(df.y, window, window, window, "sum"))
        z == DropFirst(Rolling(df.z, window, window, window, "sum"))
    IN [i \in 1..Len(t) |-> [timestamps |-> t[i], x |-> x[i], y |-> y[i], z |-> z[i]]]

(***************************************************************************)
(* ENMO, TimeAboveThr and ZeroCrossing: construction and run.              *)
(***************************************************************************)
WindowLens == {1, 2}

ENMOSettingsSet == { [window_len |-> w, aggregation_window |-> 60] : w \in WindowLens }

TimeAboveThrSettingsSet ==
    { [window_len |-> w, aggregation_window |-> 60, threshold |-> t] :
          w \in WindowLens, t \in {10, 130} }

\* cut-off frequencies in 0.1 Hz; 3 and 35 are the defaults
ZeroCrossingSettingsSet ==
    { [window_len |-> w, aggregation_window |-> 60, zero_crossing_thr |-> 5,
       filter_order |-> 4, filter_low_freq |-> b[1], filter_high_freq |-> b[2]] :
          w \in WindowLens, b \in {<<3, 35>>, <<3, 8>>, <<1, 4>>} }

ErrFilter == "ValueError: Digital filter critical frequencies must be 0 < Wn < fs/2"
ErrEmpty == "IndexError: index 0 is out of bounds for axis 0 with size 0"

\* ENMO.__init__, TimeAboveThr.__init__, ZeroCrossing.__init__
ExtractorInit(class, s) ==
    /\ alg' = class
    /\ settings' = s
    /\ call_arg' = s
    /\ outcome' = "constructed"
    /\ timestamps' = None
    /\ values' = None
    /\ biomarker' = None
    /\ user_stats' = None
    /\ baseline_stats' = None
    /\ biomarker_agg' = None
    /\ daily_scores' = None
    /\ raw_scores' = None
    /\ attrs' = {}
    /\ UNCHANGED <<interpretation, ecg_vars, hrv_vars, class_vars>>

ENMOInit(s) == ExtractorInit("ENMO", s)
TimeAboveThrInit(s) == ExtractorInit("TimeAboveThr", s)
ZeroCrossingInit(s) == ExtractorInit("ZeroCrossing", s)

\* magnitude - 1, negative values set to 0
Enmo(accelerometer) ==
    LET magnitude == Magnitude(accelerometer)
    IN [i \in 1..Len(magnitude) |-> IF magnitude[i] - G < 0 THEN 0 ELSE magnitude[i] - G] @@ <<>>

\* ENMO.run
ENMORun(accelerometer) ==
    /\ alg = "ENMO"
    /\ call_arg' = accelerometer
    /\ LET window == settings.window_len * accelerometer.fs
           t == DropFirst(Rolling(accelerometer.timestamps, window, window, window, "max"))
           v == DropFirst(Rolling(Enmo(accelerometer), window, window, window, "mean"))
       IN /\ timestamps' = t
          /\ values' = v
          /\ biomarker' = [i \in 1..Min(Len(t), Len(v)) |-> [timestamps |-> t[i], values |-> v[i]]]
    /\ outcome' = "ok"
    /\ attrs' = attrs \cup {"timestamps", "values", "biomarker"}
    /\ UNCHANGED <<alg, settings, score_vars, interpretation, ecg_vars, hrv_vars, class_vars>>

\* the same, had the comparison been strict
AboveThrStrict(col, threshold) == [i \in 1..Len(col) |-> IF Abs(col[i]) > threshold THEN 1 ELSE 0]

\* (abs(imu_matrix) >= threshold).astype(int), one column
AboveThr(col, threshold) == [i \in 1..Len(col) |-> IF Abs(col[i]) >= threshold THEN 1 ELSE 0]

\* TimeAboveThr.run
TimeAboveThrRun(data) ==
    /\ alg = "TimeAboveThr"
    /\ call_arg' = data
    /\ values' = RollingAgg([timestamps |-> data.timestamps,
                             x |-> AboveThr(data.x, settings.threshold),
                             y |-> AboveThr(data.y, settings.threshold),
                             z |-> AboveThr(data.z, settings.threshold)],
                            settings.window_len * data.fs)
    /\ outcome' = "ok"
    /\ attrs' = attrs \cup {"values"}
    /\ UNCHANGED <<alg, settings, score_vars, interpretation, timestamps, biomarker, ecg_vars, hrv_vars, class_vars>>

\* the band-pass filter is not computed: what it leaves of an axis, compared
\* with the threshold, is one of these 0/1 series
FilterOutcomes == {"below", "above", "alternate", "third"}

FilteredAbove(q, i) ==
    IF q = "below" THEN 0
    ELSE IF q = "above" THEN 1
    ELSE IF q = "alternate" THEN i % 2
    ELSE (IF i % 3 = 0 THEN 1 ELSE 0)

\* (imu_matrix_filtered >= zero_crossing_thr).astype(int): x follows q, y
\* follows q one sample late, z stays below the threshold
AboveZeroCrossingThr(n, q) ==
    [x |-> [i \in 1..n |-> FilteredAbove(q, i)],
     y |-> [i \in 1..n |-> FilteredAbove(q, i + 1)],
     z |-> [i \in 1..n |-> 0]]

\* abs(diff(col))
AbsDiff(col) == [i \in 1..(Len(col) - 1) |-> Abs(col[i + 1] - col[i])]

\* butter accepts the band of the settings at sampling rate fs
FilterDesignable(s, fs) ==
    /\ 0 < s.filter_low_freq
    /\ s.filter_low_freq < s.filter_high_freq
    /\ 2 * s.filter_high_freq < 10 * fs

\* ZeroCrossing.run, the filter leaving the 0/1 series q
ZeroCrossingRun(data, q) ==
    /\ alg = "ZeroCrossing"
    /\ call_arg' = data
    /\ IF ~FilterDesignable(settings, data.fs)
       THEN /\ outcome' = ErrFilter
            /\ UNCHANGED <<values, biomarker, attrs>>
       ELSE IF Len(data.timestamps) = 0
       THEN /\ outcome' = ErrEmpty
            /\ UNCHANGED <<values, biomarker, attrs>>
       ELSE LET above == AboveZeroCrossingThr(Len(data.timestamps), q)
                df == RollingAgg([timestamps |-> Tail(data.timestamps),
                                  x |-> AbsDiff(above.x),
                                  y |-> AbsDiff(above.y),
                                  z |-> AbsDiff(above.z)],
                                 settings.window_len * data.fs)
            IN /\ values' = df
               /\ biomarker' = df
               /\ attrs' = attrs \cup {"values", "biomarker"}
               /\ outcome' = "ok"
    /\ UNCHANGED <<alg, settings, score_vars, interpretation, timestamps, ecg_vars, hrv_vars, class_vars>>

NextWindowing ==
    \/ \E s \in ENMOSettingsSet : ENMOInit(s)
    \/ \E s \in TimeAboveThrSettingsSet : TimeAboveThrInit(s)
    \/ \E s \in ZeroCrossingSettingsSet : ZeroCrossingInit(s)
    \/ \E data \in IMURecords : ENMORun(data)
    \/ \E data \in IMURecords : TimeAboveThrRun(data)
    \/ \E data \in IMURecords, q \in FilterOutcomes : ZeroCrossingRun(data, q)

SpecWindowing == Init /\ [][NextWindowing]_vars

(***************************************************************************)
(* Properties of the first-stage windowing.                                *)
(***************************************************************************)
Extractors == {"ENMO", "TimeAboveThr", "ZeroCrossing"}

\* the last call was a run of an extractor / a run that returned
ExtractorRan == alg \in Extractors /\ outcome \in {"ok", ErrFilter, ErrEmpty}
ExtractorReturned == alg \in Extractors /\ outcome = "ok"

\* the sampling rate of the record suits the filter of the instance
FilterSuitsRecord == alg = "ZeroCrossing" => FilterDesignable(settings, call_arg.fs)

\* samples of the record passed to run, and samples per window
NumSamples == Len(call_arg.timestamps)
WindowSamples == settings.window_len * call_arg.fs

\* the record holds k whole windows, k >= 1
WholeWindows ==
    /\ NumSamples >= WindowSamples
    /\ NumSamples % WindowSamples = 0

\* the timestamp of the i-th emitted window
WindowTimestamp(i) == IF alg = "ENMO" THEN timestamps[i] ELSE values[i].timestamps

\* rows (i-1)*W .. i*W - 1 (counted from 0) of a column
WindowRows(col, i) == SubSeq(col, (i - 1) * WindowSamples + 1, i * WindowSamples)

\* the i-th value of ENMO is the mean of the rectified magnitudes of its rows
ENMOWindowReduced(i) ==
    /\ values[i] = MeanSeq(WindowRows(Enmo(call_arg), i))
    /\ biomarker[i] = [timestamps |-> timestamps[i], values |-> values[i]]

\* the i-th row of TimeAboveThr counts the samples of its rows above the threshold
TimeAboveThrWindowReduced(i) ==
    /\ values[i].x = SumSeq(WindowRows(AboveThr(call_arg.x, settings.threshold), i))
    /\ values[i].y = SumSeq(WindowRows(AboveThr(call_arg.y, settings.threshold), i))
    /\ values[i].z = SumSeq(WindowRows(AboveThr(call_arg.z, settings.threshold), i))

\* the i-th window reduces the whole samples (i-1)*W .. i*W - 1 of the record
WindowOverSamples(i) ==
    /\ i * WindowSamples <= NumSamples
    /\ WindowTimestamp(i) = MaxSeq(WindowRows(call_arg.timestamps, i))
    /\ alg = "ENMO" => ENMOWindowReduced(i)
    /\ alg = "TimeAboveThr" => TimeAboveThrWindowReduced(i)

\* the i-th window of ZeroCrossing reduces the W changes between the samples
\* (i-1)*W .. i*W of the record and bears the timestamp of sample i*W
WindowOverChanges(i, above) ==
    /\ i * WindowSamples + 1 <= NumSamples
    /\ values[i].timestamps = MaxSeq(WindowRows(Tail(call_arg.timestamps), i))
    /\ values[i].timestamps = call_arg.timestamps[i * WindowSamples + 1]
    /\ values[i].x = SumSeq(WindowRows(AbsDiff(above.x), i))
    /\ values[i].y = SumSeq(WindowRows(AbsDiff(above.y), i))
    /\ values[i].z = SumSeq(WindowRows(AbsDiff(above.z), i))

\* C9 as stated: a record of k*W samples yields k-1 windows, for ENMO,
\* TimeAboveThr and ZeroCrossing alike
C9_WholeWindowsYieldOneLess ==
    (ExtractorReturned /\ WholeWindows) =>
        Len(values) = NumSamples \div WindowSamples - 1

\* C9, amended: a record of k*W samples yields k-1 windows of ENMO and of
\* TimeAboveThr; ZeroCrossing, which windows the k*W - 1 changes between
\* successive samples, yields k-1 windows when W >= 2 and, when W = 1,
\* k-2 windows (none for k = 1)
C9_WholeWindowsYieldOneLessButChanges ==
    (ExtractorReturned /\ WholeWindows) =>
        LET k == NumSamples \div WindowSamples
        IN /\ Len(values) = IF alg = "ZeroCrossing" /\ WindowSamples = 1 /\ k >= 2
                            THEN k - 2 ELSE k - 1
           /\ alg = "ENMO" => Len(timestamps) = k - 1 /\ Len(biomarker) = k - 1

\* ZeroCrossing returned one window for a record of 3 windows of 1 sample,
\* or ENMO two windows for a record of 3 windows of 2 samples
C9_Witness ==
    /\ ExtractorReturned
    /\ WholeWindows
    /\ NumSamples \div WindowSamples = 3
    /\ \/ alg = "ZeroCrossing" /\ WindowSamples = 1 /\ Len(values) = 1
       \/ alg = "ENMO" /\ WindowSamples = 2 /\ Len(values) = 2

\* C10 as stated: every run of an extractor returns; its i-th window reduces
\* the W samples (i-1)*W .. i*W - 1 and bears their greatest timestamp; a
\* record of fewer than W samples yields no window
C10_WindowsOverWholeSamples ==
    (ExtractorRan /\ FilterSuitsRecord) =>
        /\ outcome = "ok"
        /\ \A i \in 1..Len(values) : WindowOverSamples(i)
        /\ NumSamples < WindowSamples => values = <<>>

\* C10, amended: so for ENMO and TimeAboveThr; ZeroCrossing windows the
\* changes between successive samples: its i-th window reduces the W changes
\* between samples (i-1)*W .. i*W and bears the timestamp of sample i*W, a
\* record of 1 to W samples yields no window, and an empty record is
\* rejected with an IndexError
C10_WindowsOverWholeSamplesOrChanges ==
    (ExtractorRan /\ FilterSuitsRecord) =>
        IF alg = "ZeroCrossing"
        THEN /\ outcome = IF NumSamples = 0 THEN ErrEmpty ELSE "ok"
             /\ outcome = "ok" =>
                   /\ \E q \in FilterOutcomes :
                         \A i \in 1..Len(values) :
                             WindowOverChanges(i, AboveZeroCrossingThr(NumSamples, q))
                   /\ NumSamples <= WindowSamples => values = <<>>
                   /\ biomarker = values
        ELSE /\ outcome = "ok"
             /\ \A i \in 1..Len(values) : WindowOverSamples(i)
             /\ NumSamples < WindowSamples => values = <<>>

\* TimeAboveThr returned 3 windows of 2 samples for a record of 7 samples, or
\* ZeroCrossing 2 windows of 2 changes for a record of 5 samples
C10_Witness ==
    /\ ExtractorReturned
    /\ WindowSamples = 2
    /\ \/ alg = "TimeAboveThr" /\ NumSamples = 7 /\ Len(values) = 3
       \/ alg = "ZeroCrossing" /\ NumSamples = 5 /\ Len(values) = 2

(***************************************************************************)
(* Properties of TimeAboveThr.                                             *)
(***************************************************************************)
Axes == {"x", "y", "z"}

\* every sample of the column has the same value
ConstantColumn(col) == \A i, j \in 1..Len(col) : col[i] = col[j]

\* C11: every window count of TimeAboveThr.run lies in [0, W]; on an axis
\* whose signal is constant it is W when the absolute value is at or above
\* the threshold and 0 when it is below
C11_TimeAboveThrCounts ==
    (alg = "TimeAboveThr" /\ outcome = "ok") =>
        \A axis \in Axes : \A i \in 1..Len(values) :
            /\ 0 <= values[i][axis]
            /\ values[i][axis] <= WindowSamples
            /\ (ConstantColumn(call_arg[axis]) /\ Abs(call_arg[axis][1]) >= settings.threshold)
                   => values[i][axis] = WindowSamples
            /\ (ConstantColumn(call_arg[axis]) /\ Abs(call_arg[axis][1]) < settings.threshold)
                   => values[i][axis] = 0

\* two windows were counted over a constant signal that is at the threshold
\* on x, above it in absolute value on y and below it on z
C11_Witness ==
    /\ alg = "TimeAboveThr"
    /\ outcome = "ok"
    /\ Len(values) >= 2
    /\ \A axis \in Axes : ConstantColumn(call_arg[axis])
    /\ call_arg.x[1] = settings.threshold
    /\ call_arg.y[1] < 0
    /\ \A i \in 1..Len(values) :
           /\ values[i].x = WindowSamples
           /\ values[i].y = WindowSamples
           /\ values[i].z = 0

(***************************************************************************)
(* EcgPeakDetector: construction and run.  Timestamps are in ms.           *)
(***************************************************************************)
FILTER_ORDER == 3
LOWER_F_CUT == 5
UPPER_F_CUT == 15

EcgRates == {25, 31, 32, 35, 64}

\* EcgData: n samples at fs Hz, a beat every 8 samples
EcgRecord(n, fs) ==
    [timestamps |-> [i \in 1..n |-> (1000 * (i - 1)) \div fs],
     values |-> [i \in 1..n |-> IF i % 8 = 3 THEN 100 ELSE 0],
     fs |-> fs]

EcgRecords == { EcgRecord(n, fs) : n \in 0..MaxEcgSamples, fs \in EcgRates }

ErrCritical == "ValueError: Digital filter critical frequencies must be 0 < Wn < 1"
ErrPadlen == "ValueError: The length of the input vector x must be greater than padlen"
ErrNoEcg == "AttributeError: 'EcgPeakDetector' object has no attribute 'ecg'"

\* EcgPeakDetector.__init__
EcgPeakDetectorInit ==
    /\ alg' = "EcgPeakDetector"
    /\ settings' = None
    /\ call_arg' = None
    /\ outcome' = "constructed"
    /\ timestamps' = None
    /\ values' = None
    /\ biomarker' = None
    /\ locs' = None
    /\ user_stats' = None
    /\ baseline_stats' = None
    /\ biomarker_agg' = None
    /\ daily_scores' = None
    /\ raw_scores' = None
    /\ UNCHANGED <<interpretation, hrv_vars, class_vars, attrs>>

\* butter accepts the band [LOWER_F_CUT, UPPER_F_CUT] / (fs * 0.5)
BandDesignable(fs) ==
    /\ 0 < LOWER_F_CUT
    /\ LOWER_F_CUT < UPPER_F_CUT
    /\ 2 * UPPER_F_CUT < fs

\* padlen of filtfilt: 3 * (max(len(b), len(a)) - 1), b and a of a band-pass
\* of order FILTER_ORDER holding 2 * FILTER_ORDER + 1 coefficients
Padlen == 3 * ((2 * FILTER_ORDER + 1) - 1)

\* EcgPeakDetector.run: the filters are designed and applied to the record,
\* then the moving average reads self.ecg, which no method assigns
EcgPeakDetectorRun(ecg) ==
    /\ alg = "EcgPeakDetector"
    /\ call_arg' = ecg
    /\ outcome' = IF ~BandDesignable(ecg.fs) THEN ErrCritical
                  ELSE IF Len(ecg.values) <= Padlen THEN ErrPadlen
                  ELSE ErrNoEcg
    /\ UNCHANGED <<alg, settings, score_vars, interpretation, window_vars, ecg_vars, hrv_vars, class_vars, attrs>>

NextEcg ==
    \/ EcgPeakDetectorInit
    \/ \E ecg \in EcgRecords : EcgPeakDetectorRun(ecg)

SpecEcg == Init /\ [][NextEcg]_vars

(***************************************************************************)
(* EcgPeakDetector: step 5 of run and the intervals, as a function of the  *)
(* integrated signal (positions are counted from 0, as numpy does).        *)
(***************************************************************************)
At(x, i) == x[i + 1]

\* the first position from i_ahead on that leaves the plateau of position i
RECURSIVE PlateauEnd(_, _, _)
PlateauEnd(x, i_ahead, i) ==
    IF i_ahead < Len(x) - 1 /\ At(x, i_ahead) = At(x, i)
    THEN PlateauEnd(x, i_ahead + 1, i)
    ELSE i_ahead

\* find_peaks: the local maxima from position i on, a plateau counted once
\* at its midpoint
RECURSIVE LocalMaximaFrom(_, _)
LocalMaximaFrom(x, i) ==
    IF i >= Len(x) - 1 THEN {}
    ELSE IF At(x, i - 1) < At(x, i)
    THEN LET i_ahead == PlateauEnd(x, i + 1, i)
         IN IF At(x, i_ahead) < At(x, i)
            THEN {(i + i_ahead - 1) \div 2} \cup LocalMaximaFrom(x, i_ahead + 1)
            ELSE LocalMaximaFrom(x, i + 1)
    ELSE LocalMaximaFrom(x, i + 1)

\* find_peaks(height = mean(x)): the peaks at least as high as the mean
AboveMean(x, peaks) == { p \in peaks : At(x, p) * Len(x) >= SumSeq(x) }

\* round(0.2 * fs)
PeakDistance(fs) == RoundHalfEven(2 * fs, 10)

\* find_peaks(distance): the highest peak is kept (of equal peaks the last)
\* and the peaks nearer to it than distance are dropped, and so on
RECURSIVE SelectByPeakDistance(_, _, _)
SelectByPeakDistance(x, peaks, distance) ==
    IF peaks = {} THEN {}
    ELSE LET j == CHOOSE p \in peaks :
                      \A q \in peaks : At(x, q) < At(x, p) \/ (At(x, q) = At(x, p) /\ q <= p)
         IN {j} \cup SelectByPeakDistance(x, { k \in peaks : Abs(k - j) >= distance }, distance)

\* a set of positions in ascending order
RECURSIVE Ascending(_)
Ascending(S) ==
    IF S = {} THEN <<>>
    ELSE LET m == CHOOSE p \in S : \A q \in S : p <= q
         IN <<m>> \o Ascending(S \ {m})

\* locs of find_peaks(ecg_integrated, height=mean, distance=round(0.2 * fs))
FindPeaks(ecg_integrated, fs) ==
    Ascending(SelectByPeakDistance(ecg_integrated,
                                   AboveMean(ecg_integrated, LocalMaximaFrom(ecg_integrated, 1)),
                                   PeakDistance(fs)))

\* the rows of DataFrame(rr): one per peak but the first
RR(ecg, peaks) ==
    [i \in 1..(Len(peaks) - 1) |->
        LET inter_beat_interval == RoundHalfEven(1000 * (peaks[i + 1] - peaks[i]), ecg.fs)
        IN [timestamps |-> At(ecg.timestamps, peaks[i + 1]),
            inter_beat_interval |-> inter_beat_interval,
            heart_rate |-> RoundHalfEven(60000, inter_beat_interval)]]

\* integrated signals: flat but for peaks at positions 2, 2 + gap and
\* 2 + gap + gap2, of the given heights (0: no peak)
Gaps == 2..9
SecondGaps == {6, 7}
PeakHeights == {<<5, 5, 0>>, <<5, 5, 5>>, <<5, 3, 5>>, <<1, 30, 30>>}

IntegratedSignal(n, gap, gap2, heights) ==
    [i \in 1..n |->
        IF i - 1 = 2 THEN heights[1]
        ELSE IF i - 1 = 2 + gap THEN heights[2]
        ELSE IF i - 1 = 2 + gap + gap2 THEN heights[3]
        ELSE 0]

IntegratedSignals ==
    { IntegratedSignal(MaxEcgSamples, gap, gap2, heights) :
          gap \in Gaps, gap2 \in SecondGaps, heights \in PeakHeights }

\* EcgPeakDetector.run from step 5 on, for a record the filters accept: the
\* peaks of the integrated signal, at the distance the rate of the record
\* gives, and the table of intervals
EcgPeakDetection(ecg_integrated, ecg) ==
    /\ alg = "EcgPeakDetector"
    /\ BandDesignable(ecg.fs)
    /\ Len(ecg.values) > Padlen
    /\ Len(ecg_integrated) = Len(ecg.values)
    /\ call_arg' = [ecg_integrated |-> ecg_integrated, fs |-> ecg.fs]
    /\ LET peaks == FindPeaks(ecg_integrated, ecg.fs)
       IN /\ locs' = peaks
          /\ biomarker' = RR(ecg, peaks)
    /\ outcome' = "ok"
    /\ UNCHANGED <<alg, settings, score_vars, interpretation, timestamps, values, hrv_vars, class_vars, attrs>>

NextEcgPeaks ==
    \/ EcgPeakDetectorInit
    \/ \E ecg_integrated \in IntegratedSignals, fs \in EcgRates :
           EcgPeakDetection(ecg_integrated, EcgRecord(Len(ecg_integrated), fs))

SpecEcgPeaks == Init /\ [][NextEcgPeaks]_vars

ValidEcgRecord == BandDesignable(call_arg.fs) /\ Len(call_arg.values) > Padlen

\* C13: run on a valid record returns and stores a table of one row per
\* peak but the first, empty when fewer than 2 peaks are found
C13_RunStoresIntervals ==
    (alg = "EcgPeakDetector" /\ outcome # "constructed" /\ ValidEcgRecord) =>
        /\ outcome = "ok"
        /\ Len(biomarker) = IF Len(locs) = 0 THEN 0 ELSE Len(locs) - 1

(***************************************************************************)
(* HrvScore: the score of the last RMSSD value of a series against the     *)
(* baseline made of the values before it.  RMSSD values are whole ms; the  *)
(* median and the standard deviation carry two decimals (1/U), the means   *)
(* of up to 10 values are exact in 1/MS, scores are in 0.01 point (1/SS).  *)
(***************************************************************************)
HrvWindowLens == {1, 3, 30}
HrvMethods == {"sigmoid", "percentile"}

\* HrvScoreSettings: window_len a PositiveInt (default 30), method one of two
HrvScoreSettingsSet ==
    {[window_len |-> w, method |-> m] : w \in HrvWindowLens, m \in HrvMethods}

RmssdLevels == {0, 10}
RmssdRecent == {0, 10, 21}
RmssdToday == {0, 30}

\* HrvData of n daily entries: the older half at a, the newer half at b,
\* the last entry at cur; timestamps are day numbers
HrvRecord(n, a, b, cur) ==
    [timestamps |-> [i \in 1..n |-> i] @@ <<>>,
     values |-> [i \in 1..n |-> IF i = n THEN cur
                                ELSE IF 2 * i <= n THEN a ELSE b] @@ <<>>]

HrvRecords ==
    {HrvRecord(n, a, b, cur) : n \in 0..MaxHrvEntries, a \in RmssdLevels,
                               b \in RmssdRecent, cur \in RmssdToday}

ErrNoEntry == "IndexError: index -1 is out of bounds for axis 0 with size 0"
ErrRoundNaN == "ValueError: cannot convert float NaN to integer"
ErrScalars == "ValueError: If using all scalar values, you must pass an index"

\* the slice s[lo:hi] of Python; a negative index counts from the end
PySlice(s, lo, hi) ==
    LET n == Len(s)
        from == Clamp(IF lo < 0 THEN n + lo ELSE lo, 0, n)
        to == Clamp(IF hi < 0 THEN n + hi ELSE hi, 0, n)
    IN IF to <= from THEN <<>> ELSE SubSeq(s, from + 1, to)

\* numpy.median: NaN for an empty array
NpMedian(a) == IF a = <<>> THEN NaN ELSE Median(a)

\* numpy.std: population standard deviation (ddof = 0), NaN for an empty array
NpStd(a) ==
    LET n == Len(a)
        d == [i \in 1..n |-> a[i] - a[1]]
        sq == [i \in 1..n |-> d[i] * d[i]]
        num == n * SumSeq(sq) - SumSeq(d) * SumSeq(d)
    IN IF n = 0 THEN NaN ELSE ISqrt(num * U * U) \div n

MS == 2520            \* the means of 1 to 10 whole values are whole in 1/MS

\* numpy.mean: NaN for an empty array
NpMean(a) == IF a = <<>> THEN NaN ELSE (MS * SumSeq(a)) \div Len(a)

\* numpy.tanh(0.5 * z), z in 0.01, result in 1/ES:
\* tanh(z / 2) = (1 - exp(-|z|)) / (1 + exp(-|z|)), with the sign of z
TanhHalf(z) ==
    LET e == ExpNeg(Abs(z) * (ES \div 100))
        t == (ES * (ES - e)) \div (ES + e)
    IN IF z < 0 THEN -t ELSE t

\* what scipy.stats.percentileofscore gives for an empty array: nan since
\* scipy 1.9, 100.0 before
EmptyPercentiles == {NaN, 100 * SS}

\* scipy.stats.percentileofscore(a, score), kind "rank"
PercentileOfScore(a, score, empty) ==
    LET n == Len(a)
        left == Cardinality({i \in 1..n : a[i] < score})
        right == Cardinality({i \in 1..n : a[i] <= score})
    IN IF n = 0 THEN empty
       ELSE ((left + right + (IF left < right THEN 1 ELSE 0)) * 50 * SS) \div n

\* step 4 of _compute_hrv_score: the relative change from the mean of the
\* first 10 to the mean of the last 10 values, as the fraction num / den
Trend(last_30_days_rmssd) ==
    LET first_10_mean == NpMean(PySlice(last_30_days_rmssd, 0, 10))
        last_10_mean == NpMean(PySlice(last_30_days_rmssd, -10, Len(last_30_days_rmssd)))
    IN IF FGt(first_10_mean, 0)
       THEN [num |-> last_10_mean - first_10_mean, den |-> first_10_mean]
       ELSE [num |-> 0, den |-> 1]

\* trend > 0.10: 10, trend > 0.05: 5, trend < -0.05: -5, otherwise 0
TrendBonus(last_30_days_rmssd) ==
    LET trend == Trend(last_30_days_rmssd)
    IN IF 10 * trend.num > trend.den THEN 10
       ELSE IF 20 * trend.num > trend.den THEN 5
       ELSE IF 20 * trend.num < -trend.den THEN -5
       ELSE 0

\* step 5 of _compute_hrv_score; cv in 0.001
StabilityPenalty(cv) == IF cv > 150 THEN -10 ELSE IF cv > 100 THEN -5 ELSE 0

\* HrvScore._compute_hrv_score up to the clip: the value passed to round
\* (in 0.01 point, NaN possible)
ComputeHrvScore(current_rmssd, last_30_days_rmssd, method, empty) ==
    LET baseline == NpMedian(last_30_days_rmssd)
        std == NpStd(last_30_days_rmssd)
        cv == IF FGt(baseline, 0) THEN FDiv(std, baseline, 1000) ELSE 0
        z_score == IF FGt(std, 0) THEN FDiv(current_rmssd * U - baseline, std, 100) ELSE 0
        base_score == IF method = "sigmoid"
                      THEN 50 * SS + (30 * SS * TanhHalf(z_score)) \div ES
                      ELSE PercentileOfScore(last_30_days_rmssd, current_rmssd, empty)
        bonus == TrendBonus(last_30_days_rmssd)
        stability_penalty == StabilityPenalty(cv)
    IN Clip(FAdd(base_score, (bonus + stability_penalty) * SS), 0, 100 * SS)

\* HrvScore.__init__
HrvScoreInit(s) ==
    /\ alg' = "HrvScore"
    /\ settings' = s
    /\ call_arg' = s
    /\ outcome' = "constructed"
    /\ timestamps' = None
    /\ values' = None
    /\ biomarker' = None
    /\ user_stats' = None
    /\ baseline_stats' = None
    /\ biomarker_agg' = None
    /\ daily_scores' = None
    /\ raw_scores' = None
    /\ hrv_score' = None
    /\ trend_bonus' = None
    /\ UNCHANGED <<interpretation, ecg_vars, class_vars, attrs>>

\* HrvScore.run: the score of data.values[-1] against
\* data.values[-window_len:-1], rounded, then the one-row table built from
\* two scalars, which pandas refuses
HrvScoreRun(data, empty) ==
    /\ alg = "HrvScore"
    /\ call_arg' = data
    /\ IF data.values = <<>>
       THEN /\ outcome' = ErrNoEntry
            /\ UNCHANGED hrv_vars
       ELSE LET n == Len(data.values)
                last_30_days_rmssd == PySlice(data.values, -settings.window_len, -1)
                clipped == ComputeHrvScore(data.values[n], last_30_days_rmssd,
                                           settings.method, empty)
            IN /\ trend_bonus' = TrendBonus(last_30_days_rmssd)
               /\ hrv_score' = RoundHalfEven(clipped, SS)
               /\ outcome' = IF IsNaN(clipped) THEN ErrRoundNaN ELSE ErrScalars
    /\ UNCHANGED <<alg, settings, score_vars, interpretation, window_vars,
                   ecg_vars, class_vars, attrs>>

NextHrv ==
    \/ \E s \in HrvScoreSettingsSet : HrvScoreInit(s)
    \/ \E data \in HrvRecords, empty \in EmptyPercentiles : HrvScoreRun(data, empty)

SpecHrv == Init /\ [][NextHrv]_vars

(***************************************************************************)
(* Properties of HrvScore.                                                 *)
(***************************************************************************)
HrvScoreRan == alg = "HrvScore" /\ outcome \notin {"none", "constructed"}

\* C14: for every setting and every series of at least 2 entries the score
\* computed for the last entry is defined and is a whole number from 0 to 100
C14_HrvScoreDefined ==
    (HrvScoreRan /\ Len(call_arg.values) >= 2) => hrv_score \in 0..100

\* some series of the model, under some window length, gets the adjustment
TrendAdjustmentProduced(adjustment) ==
    \E data \in HrvRecords, w \in HrvWindowLens :
        TrendBonus(PySlice(data.values, -w, -1)) = adjustment

\* C15: each of the trend adjustments +10, +5, -5 and -10 of HrvScore is
\* produced for the baseline of some series
C15_TrendAdjustments ==
    alg = "HrvScore" => \A adjustment \in {10, 5, -5, -10} : TrendAdjustmentProduced(adjustment)

\* C16: run on a series of at least window_len + 1 entries returns and
\* leaves one record: the last timestamp and the score
C16_RunStoresOneRecord ==
    (HrvScoreRan /\ Len(call_arg.values) >= settings.window_len + 1) =>
        /\ outcome = "ok"
        /\ biomarker_agg =
               <<[timestamps |-> call_arg.timestamps[Len(call_arg.timestamps)],
                  hrv_score |-> hrv_score]>>

(***************************************************************************)
(* The second stage: aggregate() of ENMO, TimeAboveThr and ZeroCrossing.   *)
(* ENMO.aggregate calls BaseAlgorithm.aggregate through super(); that is a *)
(* classmethod, so what it names self is the class ENMO: it reads the      *)
(* _aggregation_window of the class and sets biomarker_agg on the class.   *)
(***************************************************************************)
AggregationWindows == {2, 60}
AggregateStartTimes == {57}
AggregatePatterns == {"alternate", "cycle"}
Reducers == {"sum", "mean", "max"}
AggregateFilterOutcomes == {"alternate", "third"}

AggregateENMOSettingsSet ==
    { [window_len |-> w, aggregation_window |-> a] : w \in WindowLens, a \in AggregationWindows }

AggregateTimeAboveThrSettingsSet ==
    { [window_len |-> 1, aggregation_window |-> a, threshold |-> 10] : a \in AggregationWindows }

AggregateZeroCrossingSettingsSet ==
    { [window_len |-> w, aggregation_window |-> a, zero_crossing_thr |-> 5,
       filter_order |-> 4, filter_low_freq |-> 1, filter_high_freq |-> 4] :
          w \in WindowLens, a \in AggregationWindows }

\* records that cross the start of a minute
AggregateRecords ==
    { IMURecord(n, fs, t0, p) : n \in 0..MaxSamples, fs \in SamplingRates,
                                t0 \in AggregateStartTimes, p \in AggregatePatterns }

\* BaseAlgorithm._aggregation_window, the attribute of the class, in seconds
ClassAggregationWindow == 60

ErrNoTimestamps == "AttributeError: 'ENMO' object has no attribute 'timestamps'"
ErrNoValues == "AttributeError: 'ZeroCrossing' object has no attribute 'values'"
ErrNoData == "AttributeError: 'TimeAboveThr' object has no attribute 'data'"
ErrUnbound == "UnboundLocalError: local variable 'df_agg' referenced before assignment"
ErrNoNumeric == "DataError: No numeric types to aggregate"

\* what groupby(...).mean() makes of the empty frame of object columns:
\* an empty table, or the DataError of older pandas
EmptyFrameOutcomes == {"ok", ErrNoNumeric}

\* the same, had the timestamp been rounded to the nearest epoch start
EpochStartNearest(x, aggregation_window) ==
    ((2 * x + aggregation_window * TU) \div (2 * aggregation_window * TU)) *
        (aggregation_window * TU)

\* (x // aggregation_window) * aggregation_window, x in ticks
EpochStart(x, aggregation_window) ==
    (x \div (aggregation_window * TU)) * (aggregation_window * TU)

RECURSIVE Ascend(_)
Ascend(S) ==
    IF S = {} THEN <<>>
    ELSE LET m == CHOOSE x \in S : \A y \in S : x <= y
         IN <<m>> \o Ascend(S \ {m})

\* the cells of col in the rows whose key is k, in the order of the rows
GroupCells(keys, col, k) ==
    LET rows == Ascend({i \in 1..Len(keys) : keys[i] = k})
    IN [j \in 1..Len(rows) |-> col[rows[j]]] @@ <<>>

\* df.groupby("timestamps")["values"].agg(how).reset_index(): one row per
\* key, keys ascending
GroupBy(keys, col, how) ==
    LET ks == Ascend({keys[i] : i \in 1..Len(keys)})
    IN [j \in 1..Len(ks) |->
           [timestamps |-> ks[j], values |-> Reduce(how, GroupCells(keys, col, ks[j]))]]

\* df.groupby("timestamps")[["x", "y", "z"]].agg(how).reset_index()
GroupByAxes(keys, df, how) ==
    LET ks == Ascend({keys[i] : i \in 1..Len(keys)})
    IN [j \in 1..Len(ks) |->
           [timestamps |-> ks[j],
            x |-> Reduce(how, GroupCells(keys, Column(df, "x"), ks[j])),
            y |-> Reduce(how, GroupCells(keys, Column(df, "y"), ks[j])),
            z |-> Reduce(how, GroupCells(keys, Column(df, "z"), ks[j]))]]

\* BaseAlgorithm.aggregate, called on the class: the table it sets on the
\* class for method "mean"
BaseAggregate(ts, vals) ==
    GroupBy([i \in 1..Len(ts) |-> EpochStart(ts[i], ClassAggregationWindow)] @@ <<>>,
            vals, "mean")

\* ENMO.aggregate
ENMOAggregate(method, empty) ==
    /\ alg = "ENMO"
    /\ call_arg' = [method |-> method]
    /\ IF "timestamps" \notin attrs
       THEN /\ outcome' = ErrNoTimestamps
            /\ UNCHANGED class_biomarker_agg
       ELSE IF method # "mean"
       THEN /\ outcome' = ErrUnbound
            /\ UNCHANGED class_biomarker_agg
       ELSE IF timestamps = <<>> /\ empty # "ok"
       THEN /\ outcome' = empty
            /\ UNCHANGED class_biomarker_agg
       ELSE /\ outcome' = "ok"
            /\ class_biomarker_agg' = Some(BaseAggregate(timestamps, values))
    /\ UNCHANGED <<alg, settings, score_vars, interpretation, window_vars,
                   ecg_vars, hrv_vars, peer, attrs>>

NextAggregate ==
    \/ \E s \in AggregateENMOSettingsSet : ENMOInit(s)
    \/ \E data \in AggregateRecords : ENMORun(data)
    \/ \E method \in Reducers, empty \in EmptyFrameOutcomes : ENMOAggregate(method, empty)

SpecAggregate == Init /\ [][NextAggregate]_vars

\* TimeAboveThr.aggregate: self.data is read first, and no method sets it
TimeAboveThrAggregate(method) ==
    /\ alg = "TimeAboveThr"
    /\ call_arg' = [method |-> method]
    /\ outcome' = ErrNoData
    /\ UNCHANGED <<alg, settings, score_vars, interpretation, window_vars,
                   ecg_vars, hrv_vars, class_vars, attrs>>

\* ZeroCrossing.aggregate
ZeroCrossingAggregate(method) ==
    /\ alg = "ZeroCrossing"
    /\ call_arg' = [method |-> method]
    /\ IF "values" \notin attrs
       THEN /\ outcome' = ErrNoValues
            /\ UNCHANGED <<biomarker_agg, attrs>>
       ELSE LET df == values
                keys == [i \in 1..Len(df) |->
                            EpochStart(df[i].timestamps, settings.aggregation_window)] @@ <<>>
            IN /\ biomarker_agg' = GroupByAxes(keys, df, method)
               /\ attrs' = attrs \cup {"biomarker_agg"}
               /\ outcome' = "ok"
    /\ UNCHANGED <<alg, settings, user_stats, baseline_stats, daily_scores, raw_scores,
                   interpretation, window_vars, ecg_vars, hrv_vars, class_vars>>

NextAggregateAxes ==
    \/ \E s \in AggregateTimeAboveThrSettingsSet : TimeAboveThrInit(s)
    \/ \E s \in AggregateZeroCrossingSettingsSet : ZeroCrossingInit(s)
    \/ \E data \in AggregateRecords : TimeAboveThrRun(data)
    \/ \E data \in AggregateRecords, q \in AggregateFilterOutcomes : ZeroCrossingRun(data, q)
    \/ \E method \in Reducers : TimeAboveThrAggregate(method)
    \/ \E method \in Reducers : ZeroCrossingAggregate(method)

SpecAggregateAxes == Init /\ [][NextAggregateAxes]_vars

(***************************************************************************)
(* Two ENMO instances in one process: the instance of the variables        *)
(* above, and peer, a record of the attributes of the second instance and  *)
(* of how its last call ended.  biomarker_agg is set on the class by       *)
(* either.                                                                 *)
(***************************************************************************)
InstanceSettingsSet == { [window_len |-> 1, aggregation_window |-> 60] }

InstanceSamples == {2, 3}

InstanceRecords ==
    { IMURecord(n, 1, t0, p) : n \in InstanceSamples, t0 \in AggregateStartTimes,
                               p \in AggregatePatterns }

\* ENMO.__init__ of the second instance
PeerENMOInit(s) ==
    /\ peer' = [settings |-> s, timestamps |-> None, values |-> None, biomarker |-> None,
                attrs |-> {}, outcome |-> "constructed", call_arg |-> s]
    /\ UNCHANGED <<alg, settings, score_vars, outcome, call_arg, interpretation,
                   window_vars, ecg_vars, hrv_vars, class_biomarker_agg, attrs>>

\* ENMO.run of the second instance
PeerENMORun(accelerometer) ==
    /\ peer # None
    /\ LET window == peer.settings.window_len * accelerometer.fs
           t == DropFirst(Rolling(accelerometer.timestamps, window, window, window, "max"))
           v == DropFirst(Rolling(Enmo(accelerometer), window, window, window, "mean"))
       IN peer' = [peer EXCEPT
                       !.timestamps = t,
                       !.values = v,
                       !.biomarker = [i \in 1..Min(Len(t), Len(v)) |->
                                         [timestamps |-> t[i], values |-> v[i]]],
                       !.attrs = @ \cup {"timestamps", "values", "biomarker"},
                       !.outcome = "ok",
                       !.call_arg = accelerometer]
    /\ UNCHANGED <<alg, settings, score_vars, outcome, call_arg, interpretation,
                   window_vars, ecg_vars, hrv_vars, class_biomarker_agg, attrs>>

\* ENMO.aggregate of the second instance
PeerENMOAggregate(method, empty) ==
    /\ peer # None
    /\ IF "timestamps" \notin peer.attrs
       THEN /\ peer' = [peer EXCEPT !.outcome = ErrNoTimestamps,
                                    !.call_arg = [method |-> method]]
            /\ UNCHANGED class_biomarker_agg
       ELSE IF method # "mean"
       THEN /\ peer' = [peer EXCEPT !.outcome = ErrUnbound,
                                    !.call_arg = [method |-> method]]
            /\ UNCHANGED class_biomarker_agg
       ELSE IF peer.timestamps = <<>> /\ empty # "ok"
       THEN /\ peer' = [peer EXCEPT !.outcome = empty,
                                    !.call_arg = [method |-> method]]
            /\ UNCHANGED class_biomarker_agg
       ELSE /\ peer' = [peer EXCEPT !.outcome = "ok",
                                    !.call_arg = [method |-> method]]
            /\ class_biomarker_agg' = Some(BaseAggregate(peer.timestamps, peer.values))
    /\ UNCHANGED <<alg, settings, score_vars, outcome, call_arg, interpretation,
                   window_vars, ecg_vars, hrv_vars, attrs>>

\* a call on the first instance, a call on the second
CallOnInstance ==
    \/ \E s \in InstanceSettingsSet : ENMOInit(s)
    \/ \E data \in InstanceRecords : ENMORun(data)
    \/ \E method \in Reducers, empty \in EmptyFrameOutcomes : ENMOAggregate(method, empty)

CallOnPeer ==
    \/ \E s \in InstanceSettingsSet : PeerENMOInit(s)
    \/ \E data \in InstanceRecords : PeerENMORun(data)
    \/ \E method \in Reducers, empty \in EmptyFrameOutcomes : PeerENMOAggregate(method, empty)

NextInstances == CallOnInstance \/ CallOnPeer

SpecInstances == Init /\ [][NextInstances]_vars

(***************************************************************************)
(* Properties of the second stage.                                         *)
(***************************************************************************)
\* the last call was aggregate(method)
LastCallWasAggregate == alg \in Extractors /\ "method" \in DOMAIN call_arg

\* what instance.biomarker_agg gives: the attribute of the instance if it
\* is set, otherwise the attribute of its class (None if neither is set)
ObservedBiomarkerAgg ==
    IF "biomarker_agg" \in attrs THEN Some(biomarker_agg) ELSE class_biomarker_agg

\* the timestamps of the first-stage windows of the instance, and the
\* number of the epoch of aggregation_window seconds each falls in
StageTimestamps == IF alg = "ENMO" THEN timestamps ELSE Column(values, "timestamps")
EpochOf(t, aggregation_window) == t \div (aggregation_window * TU)
StageEpochs(aggregation_window) ==
    {EpochOf(StageTimestamps[i], aggregation_window) : i \in 1..Len(StageTimestamps)}

\* the cells of a column of first-stage values in the windows of epoch e
EpochCells(col, e, aggregation_window) ==
    LET rows == Ascend({i \in 1..Len(StageTimestamps) :
                           EpochOf(StageTimestamps[i], aggregation_window) = e})
    IN [j \in 1..Len(rows) |-> col[rows[j]]] @@ <<>>

\* the j-th row of the table holds the reduction of the first-stage values
\* of the j-th epoch, epochs of aggregation_window seconds
RowReducesEpoch(table, j, how, aggregation_window) ==
    LET e == Ascend(StageEpochs(aggregation_window))[j]
    IN IF alg = "ENMO"
       THEN table[j].values = Reduce(how, EpochCells(values, e, aggregation_window))
       ELSE \A axis \in Axes :
                table[j][axis] =
                    Reduce(how, EpochCells(Column(values, axis), e, aggregation_window))

\* one row per epoch, each the reduction of its epoch
TableFollowsEpochs(table, how, aggregation_window) ==
    /\ Len(table) = Cardinality(StageEpochs(aggregation_window))
    /\ \A j \in 1..Len(table) : RowReducesEpoch(table, j, how, aggregation_window)

\* C18: for ENMO and ZeroCrossing constructed with aggregation_window = A,
\* aggregate() puts two first-stage windows into the same row if and only if
\* floor(t1 / A) = floor(t2 / A): one row per such epoch, reducing exactly
\* the windows of the epoch
C18_AggregationWindowEffective ==
    (alg \in {"ENMO", "ZeroCrossing"} /\ LastCallWasAggregate /\ outcome = "ok") =>
        TableFollowsEpochs(ObservedBiomarkerAgg[1], call_arg.method,
                           settings.aggregation_window)

\* C19: after ENMO.run, aggregate(method) returns for each of sum, mean and
\* max and stores one row per epoch with that reduction of the first-stage
\* values of the epoch, rows by ascending epoch; stated for instances whose
\* aggregation_window is the 60 s of the class and for a run that gave at
\* least one window
C19_ReducersSupported ==
    (/\ alg = "ENMO"
     /\ LastCallWasAggregate
     /\ "timestamps" \in attrs
     /\ timestamps # <<>>
     /\ settings.aggregation_window = ClassAggregationWindow) =>
        /\ outcome = "ok"
        /\ ObservedBiomarkerAgg # None
        /\ TableFollowsEpochs(ObservedBiomarkerAgg[1], call_arg.method,
                              settings.aggregation_window)
        /\ \A j \in 1..(Len(ObservedBiomarkerAgg[1]) - 1) :
               ObservedBiomarkerAgg[1][j].timestamps < ObservedBiomarkerAgg[1][j + 1].timestamps

\* C20: after TimeAboveThr.run, aggregate() returns and stores the sums of
\* the counts of each axis per epoch floor(t / aggregation_window)
C20_TimeAboveThrAggregates ==
    (alg = "TimeAboveThr" /\ LastCallWasAggregate /\ "values" \in attrs) =>
        /\ outcome = "ok"
        /\ "biomarker_agg" \in attrs
        /\ TableFollowsEpochs(biomarker_agg, "sum", settings.aggregation_window)

\* what the second and the first instance show as biomarker and
\* biomarker_agg: neither sets biomarker_agg on itself, so both show the
\* attribute of the class
ObservedThroughPeer == IF peer = None THEN None ELSE <<peer.biomarker, class_biomarker_agg>>
ObservedThroughInstance == <<biomarker, ObservedBiomarkerAgg>>

\* C17: results belong to the instance that was called: a call on one of
\* two ENMO instances never changes the biomarker or the biomarker_agg the
\* other one shows
C17_ResultsOwnedByInstance ==
    [][/\ (CallOnInstance /\ peer # None) => ObservedThroughPeer' = ObservedThroughPeer
       /\ (CallOnPeer /\ alg = "ENMO") => ObservedThroughInstance' = ObservedThroughInstance]_vars

(***************************************************************************)
(* PIMAlgorithm: estimate and aggregate.  The three attributes values_x,   *)
(* values_y and values_z are kept as the fields of values.                 *)
(***************************************************************************)
\* PIMAlgorithm._aggregation_window, in seconds
PimAggregationWindow == 5

ErrNoPimData == "AttributeError: 'PIMAlgorithm' object has no attribute 'data'"

\* PIMAlgorithm.__init__
PIMInit == ExtractorInit("PIM", None)

\* numpy.abs of a column
AbsColumn(col) == [i \in 1..Len(col) |-> Abs(col[i])] @@ <<>>

\* PIMAlgorithm.estimate
PIMEstimate(data) ==
    /\ alg = "PIM"
    /\ call_arg' = data
    /\ values' = [values_x |-> AbsColumn(data.x),
                  values_y |-> AbsColumn(data.y),
                  values_z |-> AbsColumn(data.z)]
    /\ attrs' = attrs \cup {"values_x", "values_y", "values_z"}
    /\ outcome' = "ok"
    /\ UNCHANGED <<alg, settings, score_vars, interpretation, timestamps, biomarker,
                   ecg_vars, hrv_vars, class_vars>>

\* PIMAlgorithm.aggregate: self.data is read first, and no method sets it
PIMAggregate(method) ==
    /\ alg = "PIM"
    /\ call_arg' = [method |-> method]
    /\ outcome' = ErrNoPimData
    /\ UNCHANGED <<alg, settings, score_vars, interpretation, window_vars,
                   ecg_vars, hrv_vars, class_vars, attrs>>

NextPim ==
    \/ PIMInit
    \/ \E data \in IMURecords : PIMEstimate(data)
    \/ \E method \in Reducers : PIMAggregate(method)

SpecPim == Init /\ [][NextPim]_vars

(***************************************************************************)
(* Properties of PIMAlgorithm.                                             *)
(***************************************************************************)
\* estimate has been called on the instance
PimEstimated == alg = "PIM" /\ "values_x" \in attrs

\* the stored values are the absolute values of the axes of the record
PimAbsoluteValues(data) ==
    /\ Len(values.values_x) = Len(data.x)
    /\ \A i \in 1..Len(data.x) :
           /\ values.values_x[i] >= 0 /\ values.values_x[i] \in {data.x[i], -data.x[i]}
           /\ values.values_y[i] >= 0 /\ values.values_y[i] \in {data.y[i], -data.y[i]}
           /\ values.values_z[i] >= 0 /\ values.values_z[i] \in {data.z[i], -data.z[i]}

\* the last call was estimate, and it stored the absolute values
PimEstimateStored ==
    (PimEstimated /\ "method" \notin DOMAIN call_arg) =>
        /\ outcome = "ok"
        /\ PimAbsoluteValues(call_arg)

\* C21: estimate stores the absolute values of x, y and z (as long as the
\* input, none negative), and an aggregate() after it returns and stores
\* its table, the sums per axis over the 5-second epochs floor(t / 5)
C21_PimEstimateAndAggregate ==
    /\ PimEstimateStored
    /\ (PimEstimated /\ "method" \in DOMAIN call_arg) =>
           /\ outcome = "ok"
           /\ "biomarker_agg" \in attrs

(***************************************************************************)
(* Properties of ENMO.run(record).aggregate() on short records.            *)
(***************************************************************************)
\* aggregate() returned on an ENMO instance of the default 60 s window whose
\* run gave at least one window; the records of the model are all shorter
\* than 60 s
ShortRecordAggregated ==
    /\ alg = "ENMO"
    /\ LastCallWasAggregate
    /\ outcome = "ok"
    /\ settings.aggregation_window = ClassAggregationWindow
    /\ timestamps # <<>>
    /\ timestamps[Len(timestamps)] - timestamps[1] < ClassAggregationWindow * TU

PrecedingRows(rows, k) == [i \in 1..k |-> rows[Len(rows) - 1 - k + i]]

\* the number of baseline rows of a table under the settings of the instance
BaselineRows(rows) == Min(settings.baseline_window_days, Len(rows) - 1)

\* C23: a successful run scores the last row of its table against the
\* min(baseline_window_days, rows - 1) rows immediately before it, never the
\* last row itself, and reports that number as baseline_days_used
C23_BaselinePrecedesScoredRow ==
    [][\A data \in DailyTables :
          (ActivityScoreRun(data) /\ outcome' = "ok") =>
              LET rows == data.rows
                  k == BaselineRows(rows)
                  baseline == PrecedingRows(rows, k)
                  today == rows[Len(rows)]
              IN /\ k >= 1
                 /\ baseline_stats' = Some(BaselineStatsOf[baseline])
                 /\ raw_scores' = Some(RawScores(today, baseline, settings))
                 /\ Len(biomarker_agg') = 1
                 /\ biomarker_agg'[1].baseline_days_used = k
                 /\ biomarker_agg'[1].steps = today.steps
                 /\ biomarker_agg'[1].sleep_hours = today.sleep_hours
                 /\ biomarker_agg'[1].training_minutes = today.training_minutes
                 /\ biomarker_agg'[1].resting_minutes = today.resting_minutes]_vars

\* a run on a table of three rows under a baseline window of one day: the
\* baseline is the second row alone
C23_Witness ==
    /\ alg = "ActivityScore"
    /\ outcome = "ok"
    /\ call_arg.nrows = 3
    /\ settings.baseline_window_days = 1
    /\ biomarker_agg[1].baseline_days_used = 1

(***************************************************************************)
(* Properties of the baseline of HrvScore.run.                             *)
(***************************************************************************)
\* the k entries of a series immediately before its last entry
PrecedingValues(series, k) == [i \in 1..k |-> series[Len(series) - 1 - k + i]]

\* C24: on a series of at least window_len + 1 entries, run scores the last
\* value against the window_len values immediately before it, the scored
\* value not among them
C24_BaselineOfWindowLen ==
    (HrvScoreRan /\ Len(call_arg.values) >= settings.window_len + 1) =>
        LET series == call_arg.values
            baseline == PrecedingValues(series, settings.window_len)
        IN /\ trend_bonus = TrendBonus(baseline)
           /\ \E empty \in EmptyPercentiles :
                  hrv_score = RoundHalfEven(ComputeHrvScore(series[Len(series)], baseline,
                                                            settings.method, empty), SS)

(***************************************************************************)
(* Properties of repeated calls of ActivityScore.run.                      *)
(***************************************************************************)
\* C25: whatever the instance held before, a successful run leaves exactly
\* one record in biomarker_agg, the same in daily_scores, and the baseline
\* statistics of its own table: all three are those of the settings and of
\* the table of this call alone
C25_ResultsOfLatestRun ==
    [][\A data \in DailyTables :
          (ActivityScoreRun(data) /\ outcome' = "ok") =>
              /\ Len(biomarker_agg') = 1
              /\ biomarker_agg' = <<RunRecordOf(data.rows, settings)>>
              /\ daily_scores' = biomarker_agg'
              /\ baseline_stats' = Some(RunStatsOf(data.rows, settings))]_vars

\* a successful run on a table of two rows has stored its results
C25_Witness ==
    /\ alg = "ActivityScore"
    /\ outcome = "ok"
    /\ call_arg.nrows = 2
    /\ Len(biomarker_agg) = 1
    /\ daily_scores = biomarker_agg
    /\ baseline_stats # None

(***************************************************************************)
(* Properties of the curves of the sub-scores.                             *)
(***************************************************************************)
\* two scores (in 0.01 point) agree up to the last digit
SameScore(a, b) == ~IsNaN(a) /\ ~IsNaN(b) /\ Abs(a - b) <= 1

\* C26: the training sub-score is 50 below 5 minutes; from 5 minutes to
\* optimal = max(30, baseline median) it rises linearly from 50 to 100;
\* from optimal to optimal + 2 sigma (sigma the baseline std, 15 when zero)
\* it stays within 10 points of 100; beyond, it is 100 minus 0.5 per excess
\* minute, floored at 0.  The last two cases are stated for a baseline whose
\* std is a number.
C26_TrainingCurve ==
    Len(biomarker_agg) = 1 =>
        LET stats == baseline_stats[1]
            training_minutes == U * Record.training_minutes
            score == raw_scores[1].training_score
            optimal == IF stats.training_median > 30 * U THEN stats.training_median ELSE 30 * U
            sigma == IF stats.training_std = 0 THEN 15 * U ELSE stats.training_std
            max_train == optimal + 2 * sigma
        IN /\ training_minutes < 5 * U => score = 50 * SS
           /\ (5 * U <= training_minutes /\ training_minutes <= optimal) =>
                  SameScore(score, 50 * SS + ((training_minutes - 5 * U) * 50 * SS)
                                                 \div (optimal - 5 * U))
           /\ (~IsNaN(sigma) /\ optimal < training_minutes /\ training_minutes <= max_train) =>
                  (90 * SS <= score /\ score <= 100 * SS)
           /\ (~IsNaN(sigma) /\ max_train < training_minutes) =>
                  SameScore(score, PyMax(0, 100 * SS - ((training_minutes - max_train) * SS)
                                                           \div (2 * U)))

\* C26 as amended: from 5 minutes to optimal the score is
\* 50 + 50 * minutes / optimal, a ramp that starts above 50 at 5 minutes;
\* and against a baseline of a single row, whose std is undefined, every
\* value above optimal scores 0
C26_TrainingCurveFromZero ==
    Len(biomarker_agg) = 1 =>
        LET stats == baseline_stats[1]
            training_minutes == U * Record.training_minutes
            score == raw_scores[1].training_score
            optimal == IF stats.training_median > 30 * U THEN stats.training_median ELSE 30 * U
            sigma == IF stats.training_std = 0 THEN 15 * U ELSE stats.training_std
            max_train == optimal + 2 * sigma
        IN /\ training_minutes < 5 * U => score = 50 * SS
           /\ (5 * U <= training_minutes /\ training_minutes <= optimal) =>
                  SameScore(score, 50 * SS + (training_minutes * 50 * SS) \div optimal)
           /\ (~IsNaN(sigma) /\ optimal < training_minutes /\ training_minutes <= max_train) =>
                  (90 * SS <= score /\ score <= 100 * SS)
           /\ (~IsNaN(sigma) /\ max_train < training_minutes) =>
                  SameScore(score, PyMax(0, 100 * SS - ((training_minutes - max_train) * SS)
                                                           \div (2 * U)))
           /\ (IsNaN(sigma) /\ optimal < training_minutes) => score = 0

\* a day of exactly 5 minutes of training scores more than 50
C26_Witness ==
    /\ Len(biomarker_agg) = 1
    /\ Record.training_minutes = 5
    /\ raw_scores[1].training_score > 50 * SS

\* the ceiling of the step curve: max(1.5 * median, 75th percentile)
StepCeiling(stats) ==
    IF (stats.steps_median * 3) \div 2 >= stats.steps_p75
    THEN (stats.steps_median * 3) \div 2 ELSE stats.steps_p75

\* two scores agree within one point: the step ratios are kept to three
\* decimals, which moves the gaussian by up to half a point
NearScore(a, b) == ~IsNaN(a) /\ ~IsNaN(b) /\ Abs(a - b) <= SS

\* 100 * exp(-2), the height of the gaussian two widths from its centre
GaussianAtCeiling == (100 * SS * ExpNeg(2 * ES)) \div ES

\* C27: under 'gaussian' the step sub-score is 0 for a zero median, 100 when
\* the steps of the day equal the median, the same for median + d and
\* median - d, and 100 * exp(-2) at the ceiling max(1.5 * median, p75);
\* under 'sigmoid' and 'linear' alike it is min(100, 100 * steps / ceiling),
\* and 0 for a zero ceiling
C27_StepCurve ==
    Len(biomarker_agg) = 1 =>
        LET stats == baseline_stats[1]
            median == stats.steps_median
            ceiling == StepCeiling(stats)
            daily_steps == U * Record.steps
            score == raw_scores[1].step_score
        IN IF settings.scoring_method = "gaussian"
           THEN /\ median = 0 => score = 0
                /\ (median > 0 /\ daily_steps = median) => score = 100 * SS
                /\ median > 0 =>
                       \A day \in Days :
                           U * day.steps + daily_steps = 2 * median =>
                               NearScore(score, ScoreSteps(day.steps, stats, "gaussian"))
                /\ (median > 0 /\ daily_steps = ceiling) => NearScore(score, GaussianAtCeiling)
           ELSE /\ ceiling = 0 => score = 0
                /\ ceiling > 0 =>
                       SameScore(score, Min(100 * SS, (daily_steps * 100 * SS) \div ceiling))

\* under 'sigmoid' a day below the ceiling scores on the linear ramp
C27_Witness ==
    /\ Len(biomarker_agg) = 1
    /\ settings.scoring_method = "sigmoid"
    /\ raw_scores[1].step_score > 0
    /\ raw_scores[1].step_score < 100 * SS

\* C30: against the baseline of the run, no day with less sleep (less rest)
\* than the scored day scores higher in sleep (in rest), as long as the
\* scored day lies at or below the optimal, the baseline median
C30_MoreSleepNeverLowers ==
    Len(biomarker_agg) = 1 =>
        LET stats == baseline_stats[1]
        IN /\ U * Record.sleep_hours <= stats.sleep_median =>
                  \A less \in 0..Record.sleep_hours :
                      ~FLt(raw_scores[1].sleep_score, ScoreSleep(less, stats))
           /\ U * Record.resting_minutes <= stats.resting_median =>
                  \A less \in 0..Record.resting_minutes :
                      ~FLt(raw_scores[1].resting_score, ScoreResting(less, stats))

(***************************************************************************)
(* Properties of the number of first-stage windows.                        *)
(***************************************************************************)
\* the rows the instance windows: the samples of the record, or the changes
\* between successive samples for ZeroCrossing
WindowedRows == IF alg = "ZeroCrossing" THEN NumSamples - 1 ELSE NumSamples

\* the rolling output that [1:] discards holds no row
DiscardedOutputEmpty ==
    WindowedRows > 0 => WindowBounds(WindowedRows, WindowSamples, WindowSamples)[1].end = 0

\* C29: a run on n samples emits floor(n / W) windows, one per complete
\* block of W samples, and the one rolling output it discards holds no sample
C29_OnlyRemainderLost ==
    ExtractorReturned =>
        /\ Len(values) = NumSamples \div WindowSamples
        /\ DiscardedOutputEmpty

\* C29 as amended: over n rows the run emits ceil(n / W) - 1 windows (none
\* for n = 0): floor(n / W) when n is no multiple of W, and one less, the
\* last complete block being lost, when it is; ZeroCrossing windows the
\* n - 1 changes of a record of n samples
C29_LastWholeBlockLost ==
    ExtractorReturned =>
        LET n == WindowedRows
            W == WindowSamples
        IN /\ n = 0 => Len(values) = 0
           /\ (n > 0 /\ n % W # 0) => Len(values) = n \div W
           /\ (n > 0 /\ n % W = 0) => Len(values) = n \div W - 1
           /\ DiscardedOutputEmpty

\* ENMO returned one window for a record of two blocks of two samples
C29_Witness ==
    /\ ExtractorReturned
    /\ alg = "ENMO"
    /\ WindowSamples = 2
    /\ NumSamples = 4
    /\ Len(values) = 1

(***************************************************************************)
(* The epoch labels of the four aggregate methods: the lambda each applies *)
(* to the timestamps of the first-stage windows before it groups by them.  *)
(* Timestamps are in ticks; a label floor(t / W) * W is kept in ticks, a   *)
(* label floor(t / W) is the number of the epoch.                          *)
(***************************************************************************)
EpochWindows == AggregationWindows \cup {PimAggregationWindow}

\* timestamps of up to MaxLabelled successive first-stage windows
LabelTimes ==
    {[i \in 1..n |-> t0 + (i - 1) * d] : n \in 1..MaxLabelled, t0 \in {0, 9, 114, 119, 240}, d \in {2, 4}}

\* x // self._aggregation_window of TimeAboveThr.aggregate
TimeAboveThrEpoch(x, aggregation_window) == x \div (aggregation_window * TU)

\* the label of PIMAlgorithm.aggregate, had it re-multiplied the quotient (in
\* seconds)
PimEpochRemultiplied(x, aggregation_window) ==
    (x \div (aggregation_window * TU)) * aggregation_window

\* x // self.aggregation_window of PIMAlgorithm.aggregate
PimEpoch(x, aggregation_window) == x \div (aggregation_window * TU)

\* the labelling of BaseAlgorithm.aggregate, which ENMO.aggregate calls
BaseEpochLabels(ts) ==
    /\ alg' = "ENMO"
    /\ call_arg' = [timestamps |-> ts, aggregation_window |-> ClassAggregationWindow]
    /\ timestamps' = [i \in 1..Len(ts) |-> EpochStart(ts[i], ClassAggregationWindow)]
    /\ outcome' = "labelled"
    /\ UNCHANGED <<settings, score_vars, interpretation, values, biomarker,
                   ecg_vars, hrv_vars, class_vars, attrs>>

\* the labelling of ZeroCrossing.aggregate
ZeroCrossingEpochLabels(ts, aggregation_window) ==
    /\ alg' = "ZeroCrossing"
    /\ call_arg' = [timestamps |-> ts, aggregation_window |-> aggregation_window]
    /\ timestamps' = [i \in 1..Len(ts) |-> EpochStart(ts[i], aggregation_window)]
    /\ outcome' = "labelled"
    /\ UNCHANGED <<settings, score_vars, interpretation, values, biomarker,
                   ecg_vars, hrv_vars, class_vars, attrs>>

\* the labelling of TimeAboveThr.aggregate
TimeAboveThrEpochLabels(ts, aggregation_window) ==
    /\ alg' = "TimeAboveThr"
    /\ call_arg' = [timestamps |-> ts, aggregation_window |-> aggregation_window]
    /\ timestamps' = [i \in 1..Len(ts) |-> TimeAboveThrEpoch(ts[i], aggregation_window)]
    /\ outcome' = "labelled"
    /\ UNCHANGED <<settings, score_vars, interpretation, values, biomarker,
                   ecg_vars, hrv_vars, class_vars, attrs>>

\* the labelling of PIMAlgorithm.aggregate
PimEpochLabels(ts) ==
    /\ alg' = "PIM"
    /\ call_arg' = [timestamps |-> ts, aggregation_window |-> PimAggregationWindow]
    /\ timestamps' = [i \in 1..Len(ts) |-> PimEpoch(ts[i], PimAggregationWindow)]
    /\ outcome' = "labelled"
    /\ UNCHANGED <<settings, score_vars, interpretation, values, biomarker,
                   ecg_vars, hrv_vars, class_vars, attrs>>

NextEpochs ==
    \/ \E ts \in LabelTimes : BaseEpochLabels(ts)
    \/ \E ts \in LabelTimes, w \in EpochWindows : ZeroCrossingEpochLabels(ts, w)
    \/ \E ts \in LabelTimes, w \in EpochWindows : TimeAboveThrEpochLabels(ts, w)
    \/ \E ts \in LabelTimes : PimEpochLabels(ts)

SpecEpochs == Init /\ [][NextEpochs]_vars

(***************************************************************************)
(* Properties of the epoch labels.                                         *)
(***************************************************************************)
MotionExtractors == {"ENMO", "TimeAboveThr", "ZeroCrossing", "PIM"}

\* the label an extractor gives the timestamp x, in seconds
ExtractorEpoch(extractor, x, aggregation_window) ==
    IF extractor = "TimeAboveThr" THEN TimeAboveThrEpoch(x, aggregation_window)
    ELSE IF extractor = "PIM" THEN PimEpoch(x, aggregation_window)
    ELSE EpochStart(x, aggregation_window) \div TU

\* the label of the shared engine, in seconds
EngineEpoch(x, aggregation_window) == EpochStart(x, aggregation_window) \div TU

\* the extractors whose label differs from the engine's for some timestamp
ExtractorsOffEngine ==
    {e \in MotionExtractors :
        \E ts \in LabelTimes, w \in EpochWindows :
            \E i \in 1..Len(ts) : ExtractorEpoch(e, ts[i], w) # EngineEpoch(ts[i], w)}

\* the labels of the state are those of the extractor of the state
LabelsOfExtractor ==
    \A i \in 1..Len(timestamps) :
        (IF alg \in ExtractorsOffEngine THEN timestamps[i] ELSE timestamps[i] \div TU)
            = ExtractorEpoch(alg, call_arg.timestamps[i], call_arg.aggregation_window)

\* two windows get the same label exactly when the engine would give them
\* the same label
SameGroupsAsEngine ==
    \A i, j \in 1..Len(timestamps) :
        timestamps[i] = timestamps[j] <=>
            EngineEpoch(call_arg.timestamps[i], call_arg.aggregation_window) =
                EngineEpoch(call_arg.timestamps[j], call_arg.aggregation_window)

====
